---- MODULE Spec2Model ----
(***************************************************************************)
(* State-machine model of the mind-map editor (view.py, node.py,           *)
(* connection.py, commands.py, main.py).                                   *)
(*                                                                         *)
(* Coordinates are integers in units of 1/20 pixel (U units per pixel), so *)
(* that the half pen widths 0.75 and 0.8 that Qt adds to a rectangle       *)
(* item's bounding rectangle are exact.  NodeItem objects and              *)
(* CrankConnection objects are numbered in order of construction; an       *)
(* object removed from the scene stays allocated, because commands keep    *)
(* references to it.                                                       *)
(***************************************************************************)
EXTENDS Integers, Sequences, FiniteSets, TLC

\* ---------------------------------------------------------------- bounds
MaxNodeObjs == 4
MaxConnObjs == 3
MaxCmdObjs == 4
MaxAligns == 1
MaxTicks == 1
MaxMultiMoves == 1

\* ------------------------------------------------------- program constants
U == 20
NODE_WIDTH == 128 * U
NODE_HEIGHT == 72 * U
VERTICAL_GAP == 60 * U
PARENT_COLUMN_OFFSET == 200 * U
grid_size == 20 * U
snap_threshold == 10 * U
min_spacing == 20 * U
H_GAP == 40 * U
\* the vertical gap left out of the child placement
V_GAP_Dropped == 0 * U
V_GAP_Doubled == 40 * U
V_GAP == 20 * U
CrankOffset == 20 * U
CrankMinRun == 30 * U
CollisionMargin == 5 * U
OwnLineMargin == 3 * U
lane_width == 60 * U
LaneMinGap == 5 * U
ALIGN_MIN_GAP == 5 * U
LANE_X_SPACING == 180 * U
min_dx == 6 * U
MoveThreshold == 5 * U
SpiralStep == 50
SpiralMaxRadius == 1000
PenHalfNormal == 15
PenHalfSelected == 16

None == 0
NoPos == <<>>
NodeIds == 1..MaxNodeObjs
ConnIds == 1..MaxConnObjs

CenterLabel == "center"
NewLabel == "new"

\* ------------------------------------------------------------- arithmetic
Abs(a) == IF a < 0 THEN -a ELSE a
Min2(a, b) == IF a < b THEN a ELSE b
Max2(a, b) == IF a > b THEN a ELSE b

\* Python's round(n / d): to nearest, ties to the even integer.
PyRound(n, d) ==
  LET q == n \div d
      r == n % d
  IN  IF 2 * r < d THEN q
      ELSE IF 2 * r > d THEN q + 1
      ELSE IF q % 2 = 0 THEN q ELSE q + 1

\* radius * cos(angle), radius * sin(angle) for the angles range(0, 360, 30),
\* from the table in thousandths, rounded to the unit.
Cos1000(a) ==
  CASE a = 0 -> 1000 [] a = 30 -> 866 [] a = 60 -> 500 [] a = 90 -> 0
    [] a = 120 -> -500 [] a = 150 -> -866 [] a = 180 -> -1000
    [] a = 210 -> -866 [] a = 240 -> -500 [] a = 270 -> 0
    [] a = 300 -> 500 [] a = 330 -> 866
Sin1000(a) == Cos1000((a + 270) % 360)

\* ----------------------------------------------------------------- state
VARIABLES
  nextNode,      \* number of the next NodeItem to be constructed
  nextConn,      \* number of the next CrankConnection to be constructed
  pos,           \* NodeItem.pos(), per object
  text,          \* NodeItem.text_item.toPlainText(), per object
  edges,         \* NodeItem._edges, per object: sequence of <<connection, other>>
  pressPos,      \* NodeItem._press_pos, per object (NoPos = None)
  sceneNodes,    \* NodeItems in the scene, in order of insertion
  selected,      \* scene.selectedItems()
  conn,          \* per CrankConnection: source, target, whether its lines are in the scene
  geom,          \* per CrankConnection: the geometry of its three line items
  connections,   \* MindMapView.connections
  stack,         \* QUndoStack: the commands
  stackIdx,      \* QUndoStack.index()
  nextCmd,       \* number of the next QUndoCommand to be constructed
  gridSnap,      \* MindMapView.grid_snap_enabled
  drag,          \* subtree drag controller state of MindMapView
  grab,          \* node holding the mouse between press and release
  pending,       \* MindMapView.pending_source_node
  doc,           \* the document written by the last export
  aligns,        \* number of alignments made
  attraction,    \* MindMapView._attraction_mode, _original_positions,
                 \* _original_connections, and the timer ticks made so far
  multi,         \* MindMapView._is_multi_move_in_progress,
                 \* _is_multi_move_undo_pending, _multi_move_start_positions,
                 \* whether _multi_move_end_timer is running, and the number
                 \* of presses made on several selected nodes
  loop,          \* a call of push_down_until_no_collision made on its own:
                 \* its arguments, its bbox, whether it is still running
  last           \* observation of the last completed operation

vars == <<nextNode, nextConn, pos, text, edges, pressPos, sceneNodes, selected,
          conn, geom, connections, stack, stackIdx, nextCmd, gridSnap, drag, grab,
          pending,
          doc, aligns, attraction, multi, loop, last>>

\* ------------------------------------------------------------- sequences
SeqToSet(s) == {s[i] : i \in DOMAIN s}

RECURSIVE Reverse(_)
Reverse(s) == IF s = <<>> THEN <<>> ELSE Append(Reverse(Tail(s)), Head(s))

RECURSIVE Remove(_, _)
Remove(s, e) ==
  IF s = <<>> THEN <<>>
  ELSE IF Head(s) = e THEN Remove(Tail(s), e)
  ELSE <<Head(s)>> \o Remove(Tail(s), e)

\* list.remove(e): removes the first occurrence
RECURSIVE RemoveFirst(_, _)
RemoveFirst(s, e) ==
  IF s = <<>> THEN <<>>
  ELSE IF Head(s) = e THEN Tail(s)
  ELSE <<Head(s)>> \o RemoveFirst(Tail(s), e)

\* scene.items() restricted to NodeItems: topmost (last inserted) first
SceneItems(scene) == Reverse(scene)

\* ------------------------------------------------------------- rectangles
Rect(x, y, w, h) == [l |-> x, t |-> y, r |-> x + w, b |-> y + h]

\* QRectF.intersects: the interiors overlap
Intersects(a, b) ==
  /\ a.l < a.r /\ a.t < a.b /\ b.l < b.r /\ b.t < b.b
  /\ a.l < b.r /\ b.l < a.r
  /\ a.t < b.b /\ b.t < a.b

\* half of the pen width set by NodeItem._update_selection_style
PenHalf(n, sel) == IF n \in sel THEN PenHalfSelected ELSE PenHalfNormal

\* QGraphicsRectItem.boundingRect(): rect() grown by half the pen width
BoundingW(n, sel) == NODE_WIDTH + 2 * PenHalf(n, sel)
BoundingH(n, sel) == NODE_HEIGHT + 2 * PenHalf(n, sel)

\* NodeItem.sceneBoundingRect()
sceneBoundingRect(p, n, sel) ==
  Rect(p[n][1] - NODE_WIDTH \div 2 - PenHalf(n, sel),
       p[n][2] - NODE_HEIGHT \div 2 - PenHalf(n, sel),
       BoundingW(n, sel), BoundingH(n, sel))

\* MindMapView.snap_to_grid
snap_to_grid(pt, enabled) ==
  IF ~enabled THEN pt
  ELSE LET gx == PyRound(pt[1], grid_size) * grid_size
           gy == PyRound(pt[2], grid_size) * grid_size
       IN  << IF Abs(pt[1] - gx) <= snap_threshold THEN gx ELSE pt[1],
              IF Abs(pt[2] - gy) <= snap_threshold THEN gy ELSE pt[2] >>

\* the rectangle tested by _is_position_free / _is_position_free_for_node
SpacedRect(pt) ==
  Rect(pt[1] - NODE_WIDTH \div 2 - min_spacing,
       pt[2] - NODE_HEIGHT \div 2 - min_spacing,
       NODE_WIDTH + 2 * min_spacing, NODE_HEIGHT + 2 * min_spacing)

\* MindMapView._is_position_free over the nodes of the scene
_is_position_free(pt, p, scene, sel) ==
  \A n \in SeqToSet(scene) : ~Intersects(SpacedRect(pt), sceneBoundingRect(p, n, sel))

\* MindMapView._is_position_free_for_node
_is_position_free_for_node(pt, moving, p, scene, sel) ==
  \A n \in SeqToSet(scene) \ {moving} :
     ~Intersects(SpacedRect(pt), sceneBoundingRect(p, n, sel))

\* ------------------------------------------------------------ connections
\* The three segments of a crank are h1 = (sx,sy)-(vx,sy), v = (vx,sy)-(vx,ey)
\* and h2 = (vx,ey)-(ex,ey).
Geom(sx, sy, vx, ey, ex) == [sx |-> sx, sy |-> sy, vx |-> vx, ey |-> ey, ex |-> ex]
NoGeom == Geom(0, 0, 0, 0, 0)

\* CrankConnection._get_unified_vertical_x_position
_get_unified_vertical_x_position(p, sel, s) == sceneBoundingRect(p, s, sel).r + CrankOffset

\* CrankConnection.update_connection: the geometry computed from the
\* endpoints' current rectangles
update_connection(p, sel, s, t) ==
  LET Ending(source_rect, vertical_x, end1) ==
        Geom(source_rect.r, p[s][2], vertical_x, p[t][2],
             IF end1 <= vertical_x THEN vertical_x + CrankMinRun ELSE end1)
      Crank(source_rect, target_rect, vertical_x) ==
        Ending(source_rect, vertical_x,
               IF target_rect.l < vertical_x THEN target_rect.r ELSE target_rect.l)
  IN  Crank(sceneBoundingRect(p, s, sel), sceneBoundingRect(p, t, sel),
            _get_unified_vertical_x_position(p, sel, s))

\* A world is what a handler changes step by step: positions and geometry.
World(p, g) == [pos |-> p, geom |-> g]

\* The environment of a handler: what setPos and itemChange read.
Env(scene, sel, grid, d, e, c, cs) ==
  [scene |-> scene, sel |-> sel, grid |-> grid, mode |-> d.mode, root |-> d.root,
   start |-> d.start, snapshot |-> d.snapshot, esnap |-> d.esnap,
   edges |-> e, conn |-> c, connections |-> cs]

\* update_connection() on every connection of the set cs
UpdateConnSet(W, cs, E) ==
  [W EXCEPT !.geom = [c \in ConnIds |->
      IF c \in cs THEN update_connection(W.pos, E.sel, E.conn[c].source, E.conn[c].target)
      ELSE W.geom[c]]]

\* the connections of view.connections with an endpoint in the node set ns
Touching(ns, E) ==
  {c \in SeqToSet(E.connections) : E.conn[c].source \in ns \/ E.conn[c].target \in ns}

\* NodeItem._update_attached_lines
_update_attached_lines(W, n, E) ==
  UpdateConnSet(W, {E.edges[n][i][1] : i \in DOMAIN E.edges[n]}, E)

PairNodes(pairs) == {pairs[i][1] : i \in DOMAIN pairs}
ShiftPairs(pairs, dx, dy) ==
  [i \in DOMAIN pairs |-> <<pairs[i][1], <<pairs[i][2][1] + dx, pairs[i][2][2] + dy>> >>]

\* setPos of a node that is not the drag root while _subtree_drag_mode is set:
\* itemChange snaps the value (node.py 101-105) and ItemPositionHasChanged
\* updates no line (node.py 132)
RECURSIVE SetPosDragged(_, _, _)
SetPosDragged(W, pairs, E) ==
  IF pairs = <<>> THEN W
  ELSE SetPosDragged([W EXCEPT !.pos[pairs[1][1]] = snap_to_grid(pairs[1][2], E.grid)],
                     Tail(pairs), E)

\* the segment translation of update_subtree_drag (view.py 1171-1184)
TranslateEdges(W, dx, dy, E) ==
  [W EXCEPT !.geom = [c \in ConnIds |->
      IF \E i \in DOMAIN E.esnap : E.esnap[i][1] = c
      THEN LET Shifted(o) == Geom(o.sx + dx, o.sy + dy, o.vx + dx, o.ey + dy, o.ex + dx)
           IN  Shifted(E.esnap[CHOOSE i \in DOMAIN E.esnap : E.esnap[i][1] = c][2])
      ELSE W.geom[c]]]

\* MindMapView.update_subtree_drag as entered from the root's itemChange:
\* the root's own setPos is the no-op of an unchanged position
update_subtree_drag_inner(W, dx, dy, E) ==
  IF ~E.mode THEN W
  ELSE UpdateConnSet(
         TranslateEdges(SetPosDragged(W, ShiftPairs(E.snapshot, dx, dy), E), dx, dy, E),
         Touching(PairNodes(E.snapshot), E), E)

\* NodeItem.itemChange(ItemPositionChange): the position setPos will store
itemChange(W, n, value, E) ==
  LET Checked(cand) ==
        IF E.mode THEN cand
        ELSE IF Cardinality(E.sel) > 1 THEN cand
        ELSE IF _is_position_free_for_node(cand, n, W.pos, E.scene, E.sel)
             THEN cand ELSE W.pos[n]
  IN  Checked(snap_to_grid(value, E.grid))

\* QGraphicsItem.setPos with NodeItem.itemChange: nothing happens when the
\* position is unchanged; otherwise the position is stored and
\* ItemPositionHasChanged runs (node.py 130-141)
SetPos(W, n, value, E) ==
  IF W.pos[n] = value THEN W
  ELSE LET Stored(np) ==
             IF np = W.pos[n] THEN W
             ELSE IF ~E.mode THEN _update_attached_lines([W EXCEPT !.pos[n] = np], n, E)
             ELSE IF n = E.root /\ E.start # NoPos
                  THEN update_subtree_drag_inner([W EXCEPT !.pos[n] = np],
                                                 np[1] - E.start[1], np[2] - E.start[2], E)
                  ELSE [W EXCEPT !.pos[n] = np]
       IN  Stored(itemChange(W, n, value, E))

\* setPos on each <<node, position>> of a list, in order
RECURSIVE SetPosAll(_, _, _)
SetPosAll(W, pairs, E) ==
  IF pairs = <<>> THEN W
  ELSE SetPosAll(SetPos(W, pairs[1][1], pairs[1][2], E), Tail(pairs), E)

\* MindMapView.update_subtree_drag
update_subtree_drag(W, dx, dy, E) ==
  IF ~E.mode THEN W
  ELSE UpdateConnSet(
         TranslateEdges(SetPosAll(W, ShiftPairs(E.snapshot, dx, dy), E), dx, dy, E),
         Touching(PairNodes(E.snapshot), E), E)

\* MindMapView.relayout: every connection of the list is recomputed
relayout(W, E) == UpdateConnSet(W, SeqToSet(E.connections), E)

\* --------------------------------------------------------------- subtrees
\* MindMapView._get_child_nodes: the scene's nodes, in scene.items() order,
\* that are the target of a listed connection whose source is the parent
RECURSIVE FilterSeq(_, _)
FilterSeq(s, keep) ==
  IF s = <<>> THEN <<>>
  ELSE IF Head(s) \in keep THEN <<Head(s)>> \o FilterSeq(Tail(s), keep)
  ELSE FilterSeq(Tail(s), keep)

_get_child_nodes(parent, scene, c, cs) ==
  FilterSeq(SceneItems(scene),
            {n \in SeqToSet(scene) \ {parent} :
               \E k \in SeqToSet(cs) : c[k].source = parent /\ c[k].target = n})

\* MindMapView.get_descendants: child, then the child's descendants, for each
\* child in turn.  The depth is bounded by the number of objects; the inputs
\* of the model never close a directed cycle of connections.
RECURSIVE DescFrom(_, _, _, _, _)
RECURSIVE DescOfList(_, _, _, _, _)
DescFrom(root, scene, c, cs, fuel) ==
  IF fuel = 0 THEN <<>>
  ELSE DescOfList(_get_child_nodes(root, scene, c, cs), scene, c, cs, fuel)
DescOfList(children, scene, c, cs, fuel) ==
  IF children = <<>> THEN <<>>
  ELSE <<Head(children)>> \o DescFrom(Head(children), scene, c, cs, fuel - 1)
       \o DescOfList(Tail(children), scene, c, cs, fuel)

get_descendants(root, scene, c, cs) == DescFrom(root, scene, c, cs, MaxNodeObjs)

\* a connection source -> target would close a directed cycle
Reaches(a, b, scene, c, cs) == a = b \/ b \in SeqToSet(get_descendants(a, scene, c, cs))

\* ------------------------------------------------------- the scene record
\* The part of the state that add_node, _create_edge, remove_edge and the
\* commands change, as one record, so that a handler is a function on it.
St == [nextNode |-> nextNode, nextConn |-> nextConn, pos |-> pos, text |-> text,
       edges |-> edges, scene |-> sceneNodes, sel |-> selected, conn |-> conn,
       geom |-> geom, connections |-> connections]

EnvOf(M, d, grid) == Env(M.scene, M.sel, grid, d, M.edges, M.conn, M.connections)
WorldOf(M) == World(M.pos, M.geom)
WithWorld(M, W) == [M EXCEPT !.pos = W.pos, !.geom = W.geom]

\* ------------------------------------------------------ free-position search
SpiralCount == ((SpiralMaxRadius - 1) \div SpiralStep) * 12
SpiralRadius(i) == SpiralStep * ((i - 1) \div 12 + 1)
SpiralAngle(i) == 30 * ((i - 1) % 12)
SpiralPoint(center, i) ==
  << center[1] + PyRound(SpiralRadius(i) * U * Cos1000(SpiralAngle(i)), 1000),
     center[2] + PyRound(SpiralRadius(i) * U * Sin1000(SpiralAngle(i)), 1000) >>

\* MindMapView._find_nearest_free_position: the first free point of the
\* rings, the centre itself when there is none
_find_nearest_free_position(center, p, scene, sel) ==
  LET First(hits) ==
        IF hits = {} THEN center
        ELSE SpiralPoint(center, CHOOSE i \in hits : \A j \in hits : i <= j)
  IN  First({i \in 1..SpiralCount : _is_position_free(SpiralPoint(center, i), p, scene, sel)})

\* MindMapView._find_collision_free_position
_find_collision_free_position(pt, p, scene, sel) ==
  IF _is_position_free(pt, p, scene, sel) THEN pt
  ELSE _find_nearest_free_position(pt, p, scene, sel)

\* ------------------------------------------------------------ view methods
\* MindMapView.add_node with a position: the new object is M.nextNode
add_node(M, label, pt, d, grid) ==
  LET Relaid(M1) == WithWorld(M1, relayout(WorldOf(M1), EnvOf(M1, d, grid)))
      Entered(M1, n) == Relaid([M1 EXCEPT !.scene = Append(M1.scene, n)])
      Placed(M0, n) ==
        Entered(WithWorld(M0, SetPos(WorldOf(M0), n,
                                     _find_collision_free_position(pt, M.pos, M.scene, M.sel),
                                     EnvOf(M0, d, grid))), n)
      Made(n) ==
        Placed([M EXCEPT !.nextNode = n + 1, !.pos[n] = <<0, 0>>, !.text[n] = label,
                         !.edges[n] = <<>>], n)
  IN  Made(M.nextNode)

\* NodeItem.attach_edge
attach_edge(M, n, c, other, d, grid) ==
  LET Updated(M1) == WithWorld(M1, _update_attached_lines(WorldOf(M1), n, EnvOf(M1, d, grid)))
  IN  Updated([M EXCEPT !.edges[n] = Append(M.edges[n], <<c, other>>)])

\* NodeItem.detach_edge
RECURSIVE DropPair(_, _)
DropPair(s, e) ==
  IF s = <<>> THEN <<>>
  ELSE IF Head(s) = e THEN DropPair(Tail(s), e)
  ELSE <<Head(s)>> \o DropPair(Tail(s), e)
detach_edge(M, n, c, other) == [M EXCEPT !.edges[n] = DropPair(M.edges[n], <<c, other>>)]

\* MindMapView._create_edge: the new object is M.nextConn
_create_edge(M, source, target, d, grid) ==
  LET Listed(M2, c) == [M2 EXCEPT !.connections = Append(M2.connections, c)]
      Made(c) ==
        Listed(attach_edge(
                 attach_edge([M EXCEPT !.nextConn = c + 1,
                                       !.conn[c] = [source |-> source, target |-> target,
                                                    live |-> TRUE],
                                       !.geom[c] = update_connection(M.pos, M.sel, source, target)],
                             source, c, target, d, grid),
                 target, c, source, d, grid), c)
  IN  Made(M.nextConn)

\* MindMapView.remove_edge
remove_edge(M, c, source, target) ==
  LET Unlisted(M2) == [M2 EXCEPT !.conn[c].live = FALSE,
                                 !.connections = RemoveFirst(M2.connections, c)]
  IN  Unlisted(detach_edge(detach_edge(M, source, c, target), target, c, source))

\* QGraphicsScene.removeItem of a node
removeItem(M, n) == [M EXCEPT !.scene = Remove(M.scene, n), !.sel = M.sel \ {n}]

\* ---------------------------------------------------------------- commands
\* One record shape for every QUndoCommand; a command uses the fields of its
\* class and leaves the others at their defaults.
NullCmd ==
  [type |-> "None", label |-> "", parent_node |-> None, pos |-> NoPos,
   node |-> None, connection |-> None, source |-> None, target |-> None,
   old_pos |-> NoPos, new_pos |-> NoPos, old_positions |-> <<>>,
   new_positions |-> <<>>, old_connections |-> <<>>, old_text |-> "",
   new_text |-> "", node_text |-> "", node_pos |-> NoPos, connected_edges |-> <<>>]

AddNodeCommand(label, parent_node, pt) ==
  [NullCmd EXCEPT !.type = "AddNode", !.label = label, !.parent_node = parent_node,
                  !.pos = pt]
ConnectNodesCommand(source, target) ==
  [NullCmd EXCEPT !.type = "ConnectNodes", !.source = source, !.target = target]
MoveNodeCommand(node, old_pos, new_pos) ==
  [NullCmd EXCEPT !.type = "MoveNode", !.node = node, !.old_pos = old_pos,
                  !.new_pos = new_pos]
MoveMultipleNodesCommand(old_positions, new_positions) ==
  [NullCmd EXCEPT !.type = "MoveMultipleNodes", !.old_positions = old_positions,
                  !.new_positions = new_positions]
RenameNodeCommand(node, old_text, new_text) ==
  [NullCmd EXCEPT !.type = "RenameNode", !.node = node, !.old_text = old_text,
                  !.new_text = new_text]
SubtreeMoveCommand(root_node, old_positions, new_positions, old_connections) ==
  [NullCmd EXCEPT !.type = "SubtreeMove", !.node = root_node,
                  !.old_positions = old_positions, !.new_positions = new_positions,
                  !.old_connections = old_connections]
DeleteNodeCommand(node, node_text, node_pos) ==
  [NullCmd EXCEPT !.type = "DeleteNode", !.node = node, !.node_text = node_text,
                  !.node_pos = node_pos]

\* the result of running a command body: the scene record and the command
Ran(M, cmd) == [m |-> M, cmd |-> cmd]

\* AddNodeCommand.redo
AddNodeRedo(M, cmd, d, grid) ==
  LET Selected(M2, n, c) == Ran([M2 EXCEPT !.sel = {n}], [cmd EXCEPT !.node = n, !.connection = c])
      Linked(M1, n) ==
        IF cmd.parent_node # None
        THEN Selected(_create_edge(M1, cmd.parent_node, n, d, grid), n, M1.nextConn)
        ELSE Selected(M1, n, None)
  IN  Linked(add_node(M, cmd.label, cmd.pos, d, grid), M.nextNode)

\* AddNodeCommand.undo
AddNodeUndo(M, cmd) ==
  LET Removed(M1) == Ran(IF cmd.node # None THEN removeItem(M1, cmd.node) ELSE M1, cmd)
  IN  Removed(IF cmd.connection # None
              THEN remove_edge(M, cmd.connection, cmd.parent_node, cmd.node) ELSE M)

\* ConnectNodesCommand.redo
ConnectNodesRedo(M, cmd, d, grid) ==
  Ran(_create_edge(M, cmd.source, cmd.target, d, grid),
      [cmd EXCEPT !.connection = M.nextConn])

\* ConnectNodesCommand.undo
ConnectNodesUndo(M, cmd) ==
  Ran(IF cmd.connection # None
      THEN remove_edge(M, cmd.connection, cmd.source, cmd.target) ELSE M, cmd)

\* MoveNodeCommand.redo and undo: setPos, then update_connection on the
\* listed connections that touch the node
MoveNodeTo(M, node, pt, d, grid) ==
  LET Moved(E) ==
        WithWorld(M, UpdateConnSet(SetPos(WorldOf(M), node, pt, E), Touching({node}, E), E))
  IN  Moved(EnvOf(M, d, grid))
MoveNodeRedo(M, cmd, d, grid) == Ran(MoveNodeTo(M, cmd.node, cmd.new_pos, d, grid), cmd)
MoveNodeUndo(M, cmd, d, grid) == Ran(MoveNodeTo(M, cmd.node, cmd.old_pos, d, grid), cmd)

\* MoveMultipleNodesCommand.redo and undo
MoveMultipleTo(M, pairs, d, grid) ==
  LET Moved(E) ==
        WithWorld(M, UpdateConnSet(SetPosAll(WorldOf(M), pairs, E),
                                   Touching(PairNodes(pairs), E), E))
  IN  Moved(EnvOf(M, d, grid))
MoveMultipleRedo(M, cmd, d, grid) == Ran(MoveMultipleTo(M, cmd.new_positions, d, grid), cmd)
MoveMultipleUndo(M, cmd, d, grid) == Ran(MoveMultipleTo(M, cmd.old_positions, d, grid), cmd)

\* RenameNodeCommand.redo and undo
RenameNodeRedo(M, cmd) == Ran([M EXCEPT !.text[cmd.node] = cmd.new_text], cmd)
RenameNodeUndo(M, cmd) == Ran([M EXCEPT !.text[cmd.node] = cmd.old_text], cmd)

\* SubtreeMoveCommand.redo: setPos on every node, then every listed
\* connection is recomputed
SubtreeMoveRedo(M, cmd, d, grid) ==
  LET Moved(E) == Ran(WithWorld(M, relayout(SetPosAll(WorldOf(M), cmd.new_positions, E), E)), cmd)
  IN  Moved(EnvOf(M, d, grid))

\* SubtreeMoveCommand.undo: setPos on every node.  The loop over
\* old_connections compares id(connection) with the connection objects that
\* key the snapshot and looks up keys the snapshot does not hold, so it
\* restores no line.
SubtreeMoveUndo(M, cmd, d, grid) ==
  Ran(WithWorld(M, SetPosAll(WorldOf(M), cmd.old_positions, EnvOf(M, d, grid))), cmd)

\* DeleteNodeCommand.redo: every edge of the node's list is recorded and
\* removed, then the node leaves the scene
RECURSIVE RemoveEdgesOf(_, _, _)
RemoveEdgesOf(M, node, es) ==
  IF es = <<>> THEN M
  ELSE RemoveEdgesOf(remove_edge(M, es[1][1], node, es[1][2]), node, Tail(es))

DeleteNodeRedo(M, cmd) ==
  LET Recorded(es) ==
        Ran(removeItem(RemoveEdgesOf(M, cmd.node, es), cmd.node),
            [cmd EXCEPT !.connected_edges =
                 cmd.connected_edges \o [i \in DOMAIN es |-> <<es[i][1], cmd.node, es[i][2]>>]])
  IN  Recorded(M.edges[cmd.node])

\* DeleteNodeCommand.undo: a new node is made by add_node; each recorded edge
\* is attached to the new node when its recorded source is the new node, and
\* otherwise to the recorded target
RECURSIVE ReattachEdges(_, _, _, _, _)
ReattachEdges(M, node, ces, d, grid) ==
  IF ces = <<>> THEN M
  ELSE LET Attached(c, source, target) ==
             IF source = node THEN attach_edge(M, source, c, target, d, grid)
             ELSE attach_edge(M, target, c, source, d, grid)
       IN  ReattachEdges(Attached(ces[1][1], ces[1][2], ces[1][3]), node, Tail(ces), d, grid)

DeleteNodeUndo(M, cmd, d, grid) ==
  Ran(ReattachEdges(add_node(M, cmd.node_text, cmd.node_pos, d, grid), M.nextNode,
                    cmd.connected_edges, d, grid),
      [cmd EXCEPT !.node = M.nextNode, !.connected_edges = <<>>])

\* QUndoCommand.redo / undo by class
CmdRedo(M, cmd, d, grid) ==
  CASE cmd.type = "AddNode" -> AddNodeRedo(M, cmd, d, grid)
    [] cmd.type = "ConnectNodes" -> ConnectNodesRedo(M, cmd, d, grid)
    [] cmd.type = "MoveNode" -> MoveNodeRedo(M, cmd, d, grid)
    [] cmd.type = "MoveMultipleNodes" -> MoveMultipleRedo(M, cmd, d, grid)
    [] cmd.type = "RenameNode" -> RenameNodeRedo(M, cmd)
    [] cmd.type = "SubtreeMove" -> SubtreeMoveRedo(M, cmd, d, grid)
    [] cmd.type = "DeleteNode" -> DeleteNodeRedo(M, cmd)

CmdUndo(M, cmd, d, grid) ==
  CASE cmd.type = "AddNode" -> AddNodeUndo(M, cmd)
    [] cmd.type = "ConnectNodes" -> ConnectNodesUndo(M, cmd)
    [] cmd.type = "MoveNode" -> MoveNodeUndo(M, cmd, d, grid)
    [] cmd.type = "MoveMultipleNodes" -> MoveMultipleUndo(M, cmd, d, grid)
    [] cmd.type = "RenameNode" -> RenameNodeUndo(M, cmd)
    [] cmd.type = "SubtreeMove" -> SubtreeMoveUndo(M, cmd, d, grid)
    [] cmd.type = "DeleteNode" -> DeleteNodeUndo(M, cmd, d, grid)

\* objects a command body constructs
NodesMadeByRedo(cmd) == IF cmd.type = "AddNode" THEN 1 ELSE 0
ConnsMadeByRedo(cmd) ==
  IF cmd.type = "ConnectNodes" \/ (cmd.type = "AddNode" /\ cmd.parent_node # None)
  THEN 1 ELSE 0
NodesMadeByUndo(cmd) == IF cmd.type = "DeleteNode" THEN 1 ELSE 0

\* QUndoStack.push: the commands above the index are dropped, the command is
\* appended and its redo() runs; r is what the redo() of the command's class
\* returns on H.m
PushCmd(H, r) ==
  [m |-> r.m, stack |-> Append(SubSeq(H.stack, 1, H.idx), r.cmd), idx |-> H.idx + 1,
   made |-> H.made + 1]

\* QUndoStack.undo
UndoCmd(H, d, grid) ==
  LET Undone(r) == [H EXCEPT !.m = r.m, !.stack[H.idx] = r.cmd, !.idx = H.idx - 1]
  IN  Undone(CmdUndo(H.m, H.stack[H.idx], d, grid))

\* QUndoStack.redo
RedoCmd(H, d, grid) ==
  LET Redone(r) == [H EXCEPT !.m = r.m, !.stack[H.idx + 1] = r.cmd, !.idx = H.idx + 1]
  IN  Redone(CmdRedo(H.m, H.stack[H.idx + 1], d, grid))

\* made counts the commands constructed so far
Hist == [m |-> St, stack |-> stack, idx |-> stackIdx, made |-> nextCmd - 1]

\* ------------------------------------------------------- placement planner
\* MindMapView._calculate_smart_position
_calculate_smart_position(parent_node, M, grid) ==
  LET es == M.edges[parent_node]
      overlaps_vertically(a, b) == ~(a.b <= b.t \/ a.t >= b.b)
      Hits(ch_rect, p_right, tentative_rect) ==
        ch_rect.l >= p_right /\ overlaps_vertically(ch_rect, tentative_rect)
      Lowest(bottoms) == CHOOSE v \in bottoms : \A w \in bottoms : w <= v
      Target(p_rect, p_y, child_nodes) ==
        snap_to_grid(
          << p_rect.r + H_GAP + NODE_WIDTH \div 2,
             IF \E ch \in child_nodes :
                   Hits(sceneBoundingRect(M.pos, ch, M.sel), p_rect.r,
                        Rect(p_rect.r + H_GAP, p_y - NODE_HEIGHT \div 2,
                             NODE_WIDTH, NODE_HEIGHT))
             THEN Lowest({p_rect.b} \cup
                         {sceneBoundingRect(M.pos, ch, M.sel).b : ch \in child_nodes})
                  + V_GAP + NODE_HEIGHT \div 2
             ELSE p_y >>, grid)
  IN  Target(sceneBoundingRect(M.pos, parent_node, M.sel), M.pos[parent_node][2],
             {es[i][2] : i \in {j \in DOMAIN es :
                                  M.pos[es[j][2]][1] > M.pos[parent_node][1]}})

\* the centre node: the first node of scene.items() with the smallest X
CenterNode(p, scene) ==
  LET Leftmost(items) ==
        items[CHOOSE i \in DOMAIN items :
                /\ \A j \in DOMAIN items : p[items[i]][1] <= p[items[j]][1]
                /\ \A j \in 1..(i - 1) : p[items[j]][1] > p[items[i]][1]]
  IN  Leftmost(SceneItems(scene))

BBox(x, y, w, h) == [x |-> x, y |-> y, width |-> w, height |-> h, bottom |-> y + h]

\* MindMapView.get_subtree_bbox with include_descendants: position and
\* position + rect() size of the root, united with the children's boxes
RECURSIVE BBoxFrom(_, _, _)
RECURSIVE BBoxUnion(_, _, _, _)
BBoxFrom(root, M, fuel) ==
  LET own == [minx |-> M.pos[root][1], miny |-> M.pos[root][2],
              maxx |-> M.pos[root][1] + NODE_WIDTH, maxy |-> M.pos[root][2] + NODE_HEIGHT]
  IN  IF fuel = 0 THEN own
      ELSE BBoxUnion(own, _get_child_nodes(root, M.scene, M.conn, M.connections), M, fuel)
BBoxUnion(acc, children, M, fuel) ==
  IF children = <<>> THEN acc
  ELSE LET United(cb) ==
             [minx |-> Min2(acc.minx, cb.minx), miny |-> Min2(acc.miny, cb.miny),
              maxx |-> Max2(acc.maxx, cb.maxx), maxy |-> Max2(acc.maxy, cb.maxy)]
       IN  BBoxUnion(United(BBoxFrom(Head(children), M, fuel - 1)), Tail(children), M, fuel)

get_subtree_bbox(root, M) ==
  LET Box(b) == BBox(b.minx, b.miny, b.maxx - b.minx, b.maxy - b.miny)
  IN  Box(BBoxFrom(root, M, MaxNodeObjs))

\* MindMapView._check_collision: position and rect() size of each other node
_check_collision(bbox, exclude_node, M) ==
  \E n \in SeqToSet(M.scene) \ {exclude_node} :
     /\ bbox.x < M.pos[n][1] + NODE_WIDTH
     /\ bbox.x + bbox.width > M.pos[n][1]
     /\ bbox.y < M.pos[n][2] + NODE_HEIGHT
     /\ bbox.y + bbox.height > M.pos[n][2]

\* MindMapView.push_down_until_no_collision
RECURSIVE push_down_until_no_collision(_, _, _, _)
push_down_until_no_collision(bbox, step, exclude_node, M) ==
  IF _check_collision(bbox, exclude_node, M)
  THEN push_down_until_no_collision(BBox(bbox.x, bbox.y + step, bbox.width, bbox.height),
                                    step, exclude_node, M)
  ELSE bbox

\* no move of several selected nodes is under way (view.py 127-129)
NoMulti ==
  [in_progress |-> FALSE, undo_pending |-> FALSE, start |-> <<>>, timer |-> FALSE,
   presses |-> 0]

\* no call of push_down_until_no_collision on its own has been made
NoLoop == [active |-> FALSE, bbox |-> BBox(0, 0, 0, 0), given |-> BBox(0, 0, 0, 0),
           step |-> 0, exclude_node |-> None]

\* MindMapView._get_all_parent_nodes
_get_all_parent_nodes(M) ==
  LET WithChildren(center_node) ==
        <<center_node>> \o _get_child_nodes(center_node, M.scene, M.conn, M.connections)
  IN  WithChildren(CenterNode(M.pos, M.scene))

\* MindMapView.calculate_parent_insert_position
calculate_parent_insert_position(reference_parent, M, grid) ==
  LET Largest(bottoms) == CHOOSE v \in bottoms : \A w \in bottoms : w <= v
      Snapped(final_bbox) == snap_to_grid(<<final_bbox.x, final_bbox.y>>, grid)
  IN  Snapped(push_down_until_no_collision(
                BBox(M.pos[reference_parent][1] + PARENT_COLUMN_OFFSET,
                     Largest({M.pos[reference_parent][2]} \cup
                             {get_subtree_bbox(q, M).bottom :
                                q \in SeqToSet(_get_all_parent_nodes(M))})
                     + VERTICAL_GAP,
                     NODE_WIDTH, NODE_HEIGHT),
                VERTICAL_GAP, None, M))

\* the scene point under the centre of the viewport (the view is not scrolled)
ViewportCenter == <<0, 0>>

\* MindMapView._calculate_parent_node_position
_calculate_parent_node_position(M, grid) ==
  IF M.scene = <<>> THEN ViewportCenter
  ELSE calculate_parent_insert_position(CenterNode(M.pos, M.scene), M, grid)

\* -------------------------------------------------------- lanes and pushes
\* list.sort(key=lambda n: n.pos().y()): stable, ascending
RECURSIVE InsertByY(_, _, _)
InsertByY(sorted, n, p) ==
  IF sorted = <<>> THEN <<n>>
  ELSE IF p[n][2] < p[Head(sorted)][2] THEN <<n>> \o sorted
  ELSE <<Head(sorted)>> \o InsertByY(Tail(sorted), n, p)
RECURSIVE SortByY(_, _)
SortByY(s, p) ==
  IF s = <<>> THEN <<>>
  ELSE InsertByY(SortByY(SubSeq(s, 1, Len(s) - 1), p), s[Len(s)], p)

InsertAt(s, i, e) == SubSeq(s, 1, i) \o <<e>> \o SubSeq(s, i + 1, Len(s))

\* MindMapView._check_lane_insertion: <<should_insert, lane_nodes, insert_index>>
\* (insert_index counts from 0); a midpoint (a + b) / 2 is compared doubled
_check_lane_insertion(dragged_node, target_pos, M) ==
  LET y2 == 2 * target_pos[2]
      mid2(lane_nodes, i) == M.pos[lane_nodes[i]][2] + M.pos[lane_nodes[i + 1]][2]
      Slot(lane_nodes, between) ==
        IF lane_nodes = <<>> THEN <<FALSE, <<>>, 0>>
        ELSE IF Len(lane_nodes) = 1
        THEN <<TRUE, lane_nodes, IF target_pos[2] <= M.pos[lane_nodes[1]][2] THEN 0 ELSE 1>>
        ELSE IF y2 < mid2(lane_nodes, 1) THEN <<TRUE, lane_nodes, 0>>
        ELSE IF between # {}
        THEN <<TRUE, lane_nodes, CHOOSE i \in between : \A j \in between : i <= j>>
        ELSE <<TRUE, lane_nodes, Len(lane_nodes)>>
      Lane(lane_nodes) ==
        Slot(lane_nodes,
             {i \in 1..(Len(lane_nodes) - 2) :
                mid2(lane_nodes, i) <= y2 /\ y2 < mid2(lane_nodes, i + 1)})
      InLane(candidates) ==
        Lane(SortByY(FilterSeq(candidates,
                               {n \in SeqToSet(candidates) :
                                  Abs(M.pos[n][1] - target_pos[1]) <= lane_width}),
                     M.pos))
  IN  InLane(FilterSeq(SceneItems(M.scene), SeqToSet(M.scene) \ {dragged_node}))

\* MindMapView._translate_subtree_vertical: setPos(x, y + dy) on the root and
\* on every entry of get_descendants(root), then every listed connection
RECURSIVE TranslateEach(_, _, _, _)
TranslateEach(W, nodes, dy, E) ==
  IF nodes = <<>> THEN W
  ELSE TranslateEach(SetPos(W, Head(nodes),
                            <<W.pos[Head(nodes)][1], W.pos[Head(nodes)][2] + dy>>, E),
                     Tail(nodes), dy, E)

_translate_subtree_vertical(M, root, dy, d, grid) ==
  LET Moved(E) ==
        WithWorld(M, relayout(
          TranslateEach(WorldOf(M),
                        <<root>> \o get_descendants(root, M.scene, M.conn, M.connections),
                        dy, E), E))
  IN  Moved(EnvOf(M, d, grid))

\* MindMapView._normalize_subtree_spacing: the loop over ordered_parents[1:]
RECURSIVE NormalizeLoop(_, _, _, _, _, _)
NormalizeLoop(M, rest, prev_bottom, min_gap, d, grid) ==
  IF rest = <<>> THEN M
  ELSE LET parent == Head(rest)
           Next1(M1) ==
             NormalizeLoop(M1, Tail(rest), get_subtree_bbox(parent, M1).bottom, min_gap,
                           d, grid)
           Spaced(bbox) ==
             Next1(IF bbox.y - prev_bottom < min_gap
                   THEN _translate_subtree_vertical(M, parent,
                                                    (prev_bottom + min_gap) - bbox.y, d, grid)
                   ELSE M)
       IN  Spaced(get_subtree_bbox(parent, M))

_normalize_subtree_spacing(M, ordered_parents, min_gap, d, grid) ==
  IF ordered_parents = <<>> THEN M
  ELSE LET Relaid(M1) == WithWorld(M1, relayout(WorldOf(M1), EnvOf(M1, d, grid)))
       IN  Relaid(NormalizeLoop(M, Tail(ordered_parents),
                                get_subtree_bbox(ordered_parents[1], M).bottom,
                                min_gap, d, grid))

\* MindMapView._reposition_lane_nodes: the loop over the nodes after the first
RECURSIVE LaneLoop(_, _, _, _, _)
LaneLoop(M, rest, prev_bottom, d, grid) ==
  IF rest = <<>> THEN M
  ELSE LET n == Head(rest)
           required_top == prev_bottom + 2 * LaneMinGap
           Next1(M1, cur_h) ==
             LaneLoop(M1, Tail(rest), (2 * M1.pos[n][2] - cur_h) + 2 * cur_h, d, grid)
           Pushed(cur_h, cur_top) ==
             Next1(IF cur_top < required_top
                   THEN _translate_subtree_vertical(M, n, (required_top - cur_top) \div 2,
                                                    d, grid)
                   ELSE M, cur_h)
           Sized(cur_h) == Pushed(cur_h, 2 * M.pos[n][2] - cur_h)
       IN  Sized(BoundingH(n, M.sel))

\* MindMapView._reposition_lane_nodes (tops and bottoms are kept doubled, so
\* that half of an odd bounding height stays an integer).  The result is the
\* scene (m) together with the call of _normalize_subtree_spacing it ends
\* with: the sorted list (ordered) and the scene handed to it (pre).
_reposition_lane_nodes(M, lane_nodes_with_dragged, d, grid) ==
  IF lane_nodes_with_dragged = <<>> THEN [m |-> M, pre |-> M, ordered |-> <<>>]
  ELSE LET Relaid(M1) == WithWorld(M1, relayout(WorldOf(M1), EnvOf(M1, d, grid)))
           Normalized(M1, ordered) ==
             [m |-> _normalize_subtree_spacing(M1, ordered, LaneMinGap, d, grid),
              pre |-> M1, ordered |-> ordered]
           Laid(ordered) ==
             Normalized(
               Relaid(LaneLoop(M, Tail(ordered),
                               2 * M.pos[ordered[1]][2] + BoundingH(ordered[1], M.sel),
                               d, grid)),
               ordered)
       IN  Laid(SortByY(lane_nodes_with_dragged, M.pos))

\* ------------------------------------------------------ generation alignment
\* the inner loop of the breadth-first search (view.py 165-171): the targets,
\* not yet visited, of the listed connections that leave cur
RECURSIVE Discover(_, _, _, _)
Discover(cs, cur, visited, c) ==
  IF cs = <<>> THEN <<>>
  ELSE IF c[Head(cs)].source = cur /\ c[Head(cs)].target \notin visited
  THEN <<c[Head(cs)].target>>
       \o Discover(Tail(cs), cur, visited \cup {c[Head(cs)].target}, c)
  ELSE Discover(Tail(cs), cur, visited, c)

\* the generations dictionary (view.py 160-171): gens[level + 1] lists the
\* nodes of a level in the order the search met them
RECURSIVE Generations(_, _, _, _)
Generations(queue, visited, gens, M) ==
  IF queue = <<>> THEN gens
  ELSE LET Grown(found, level) ==
             Generations(Tail(queue) \o [i \in DOMAIN found |-> <<found[i], level + 1>>],
                         visited \cup SeqToSet(found),
                         IF found = <<>> THEN gens
                         ELSE IF Len(gens) < level + 2 THEN Append(gens, found)
                         ELSE [gens EXCEPT ![level + 2] = @ \o found],
                         M)
       IN  Grown(Discover(M.connections, Head(queue)[1], visited, M.conn), Head(queue)[2])

\* setPos on a node of the scene record
MSetPos(M, n, value, d, grid) ==
  WithWorld(M, SetPos(WorldOf(M), n, value, EnvOf(M, d, grid)))

\* view.py 178-181: every node of a level is set to the level's column
RECURSIVE AlignColumn(_, _, _, _, _)
AlignColumn(M, nodes, target_left_x, d, grid) ==
  IF nodes = <<>> THEN M
  ELSE AlignColumn(MSetPos(M, Head(nodes),
                           <<target_left_x + BoundingW(Head(nodes), M.sel) \div 2,
                             M.pos[Head(nodes)][2]>>, d, grid),
                   Tail(nodes), target_left_x, d, grid)

\* view.py 175-181, level by level; nodes.sort() sorts the list of the
\* dictionary itself, so the result carries the sorted lists (gens)
RECURSIVE AlignLevels(_, _, _, _, _, _)
AlignLevels(M, gens, i, base_x, d, grid) ==
  IF i > Len(gens) THEN [m |-> M, gens |-> gens]
  ELSE LET Column(nodes) ==
             AlignLevels(AlignColumn(M, nodes, base_x + (i - 1) * LANE_X_SPACING, d, grid),
                         [gens EXCEPT ![i] = nodes], i + 1, base_x, d, grid)
       IN  Column(SortByY(gens[i], M.pos))

\* pairs.sort(key=lambda p: p[1]): stable, ascending in the estimated
\* vertical-line X, the right edge of sceneBoundingRect() plus 20
VerticalX(M, n) == sceneBoundingRect(M.pos, n, M.sel).r + CrankOffset
RECURSIVE InsertByVx(_, _, _)
InsertByVx(sorted, n, M) ==
  IF sorted = <<>> THEN <<n>>
  ELSE IF VerticalX(M, n) < VerticalX(M, Head(sorted)) THEN <<n>> \o sorted
  ELSE <<Head(sorted)>> \o InsertByVx(Tail(sorted), n, M)
RECURSIVE SortByVx(_, _)
SortByVx(s, M) ==
  IF s = <<>> THEN <<>>
  ELSE InsertByVx(SortByVx(SubSeq(s, 1, Len(s) - 1), M), s[Len(s)], M)

\* view.py 196-204: a node whose vertical line is not right of the one
\* before it is set min_dx to the right of it
RECURSIVE OffsetLoop(_, _, _, _, _)
OffsetLoop(M, rest, prev_vx, d, grid) ==
  IF rest = <<>> THEN M
  ELSE IF VerticalX(M, Head(rest)) <= prev_vx
  THEN OffsetLoop(MSetPos(M, Head(rest),
                          <<M.pos[Head(rest)][1]
                              + ((prev_vx + min_dx) - VerticalX(M, Head(rest))),
                            M.pos[Head(rest)][2]>>, d, grid),
                  Tail(rest), prev_vx + min_dx, d, grid)
  ELSE OffsetLoop(M, Tail(rest), VerticalX(M, Head(rest)), d, grid)

\* view.py 185-204, level by level
RECURSIVE OffsetLevels(_, _, _, _, _)
OffsetLevels(M, gens, i, d, grid) ==
  IF i > Len(gens) THEN M
  ELSE LET Shifted(pairs) ==
             OffsetLoop(M, Tail(pairs), VerticalX(M, pairs[1]), d, grid)
       IN  OffsetLevels(Shifted(SortByVx(gens[i], M)), gens, i + 1, d, grid)

\* view.py 214-221: a node nearer than ALIGN_MIN_GAP to the node above it
\* is pushed down with its subtree (tops and bottoms doubled)
RECURSIVE SpreadLoop(_, _, _, _, _)
SpreadLoop(M, rest, prev_bottom, d, grid) ==
  IF rest = <<>> THEN M
  ELSE LET n == Head(rest)
           cur_top == 2 * M.pos[n][2] - BoundingH(n, M.sel)
           required_top == prev_bottom + 2 * ALIGN_MIN_GAP
           Next1(M1) ==
             SpreadLoop(M1, Tail(rest), 2 * M1.pos[n][2] + BoundingH(n, M1.sel), d, grid)
       IN  Next1(IF cur_top < required_top
                 THEN _translate_subtree_vertical(M, n, (required_top - cur_top) \div 2,
                                                  d, grid)
                 ELSE M)

\* view.py 208-221, level by level
RECURSIVE SpreadLevels(_, _, _, _, _)
SpreadLevels(M, gens, i, d, grid) ==
  IF i > Len(gens) THEN M
  ELSE LET Spread(nodes) ==
             SpreadLoop(M, Tail(nodes),
                        2 * M.pos[nodes[1]][2] + BoundingH(nodes[1], M.sel), d, grid)
       IN  SpreadLevels(Spread(SortByY(gens[i], M.pos)), gens, i + 1, d, grid)

\* the levels align_generations_and_avoid_line_overlap works on
GenerationsOf(M) ==
  LET From(center_node) == Generations(<<<<center_node, 0>>>>, {center_node},
                                       <<<<center_node>>>>, M)
  IN  From(CenterNode(M.pos, M.scene))

\* MindMapView.align_generations_and_avoid_line_overlap
align_generations_and_avoid_line_overlap(M, d, grid) ==
  IF M.scene = <<>> THEN M
  ELSE LET Relaid(M1) == WithWorld(M1, relayout(WorldOf(M1), EnvOf(M1, d, grid)))
           Spread(M1, gens) ==
             Relaid(SpreadLevels(OffsetLevels(M1, gens, 1, d, grid), gens, 1, d, grid))
           Sorted(r) == Spread(r.m, r.gens)
           Aligned(gens, base_x) == Sorted(AlignLevels(M, gens, 1, base_x, d, grid))
       IN  Aligned(GenerationsOf(M), M.pos[CenterNode(M.pos, M.scene)][1])

\* ------------------------------------------------------- drop-time collision
Expanded(r, margin) == Rect(r.l - margin, r.t - margin,
                            (r.r - r.l) + 2 * margin, (r.b - r.t) + 2 * margin)

\* the rectangle of a node's bounding size centred on a point (doubled)
Centered2(pt, n, sel) ==
  Rect(2 * pt[1] - BoundingW(n, sel), 2 * pt[2] - BoundingH(n, sel),
       2 * BoundingW(n, sel), 2 * BoundingH(n, sel))
Doubled(r) == [l |-> 2 * r.l, t |-> 2 * r.t, r |-> 2 * r.r, b |-> 2 * r.b]

\* MindMapView._check_own_vertical_line_overlap
_check_own_vertical_line_overlap(node, target_rect2, M) ==
  \E c \in SeqToSet(M.connections) :
     /\ M.conn[c].source = node \/ M.conn[c].target = node
     /\ target_rect2.l <= 2 * (M.geom[c].vx + OwnLineMargin)
     /\ target_rect2.r >= 2 * (M.geom[c].vx - OwnLineMargin)

\* MindMapView._check_node_collision
_check_node_collision(node, target_pos, M) ==
  LET Collides(target_rect2) ==
        \/ \E item \in SeqToSet(M.scene) \ {node} :
              Intersects(target_rect2,
                         Doubled(Expanded(sceneBoundingRect(M.pos, item, M.sel),
                                          CollisionMargin)))
        \/ _check_own_vertical_line_overlap(node, target_rect2, M)
  IN  Collides(Centered2(target_pos, node, M.sel))

\* MindMapView._check_subtree_collision
_check_subtree_collision(root_node, M) ==
  LET Overlaps(subtree_nodes) ==
        \E item \in SeqToSet(M.scene) \ subtree_nodes : \E n \in subtree_nodes :
           Intersects(Centered2(M.pos[n], n, M.sel),
                      Doubled(Expanded(sceneBoundingRect(M.pos, item, M.sel),
                                       CollisionMargin)))
  IN  Overlaps({root_node} \cup
               SeqToSet(get_descendants(root_node, M.scene, M.conn, M.connections)))

\* ------------------------------------------------------ subtree drag state
\* _subtree_drag_mode, _subtree_drag_root, _subtree_drag_start_pos,
\* _subtree_drag_snapshot, _subtree_drag_edges_snapshot and
\* _subtree_drag_original_positions; the dicts are lists of pairs in
\* insertion order
DragState(mode, root, start, snapshot, esnap, orig) ==
  [mode |-> mode, root |-> root, start |-> start, snapshot |-> snapshot,
   esnap |-> esnap, orig |-> orig]
IdleDrag == DragState(FALSE, None, NoPos, <<>>, <<>>, <<>>)

\* the keys of a dict filled from a list: each key once, at its first place
RECURSIVE Dedupe(_)
Dedupe(s) ==
  IF s = <<>> THEN <<>>
  ELSE LET r == Dedupe(SubSeq(s, 1, Len(s) - 1))
       IN  IF s[Len(s)] \in SeqToSet(r) THEN r ELSE Append(r, s[Len(s)])

\* the result of a step of the drag controller: scene record and drag state
Dragged(M, d) == [m |-> M, d |-> d]

\* MindMapView.begin_subtree_drag
begin_subtree_drag(M, root_node, grid) ==
  LET Snap(keys) == [i \in DOMAIN keys |-> <<keys[i], M.pos[keys[i]]>>]
      ESnap(touching) == [i \in DOMAIN touching |-> <<touching[i], M.geom[touching[i]]>>]
      TouchingList(inside) ==
        FilterSeq(M.connections,
                  {c \in SeqToSet(M.connections) :
                     M.conn[c].source \in inside \/ M.conn[c].target \in inside})
      Updated(d, E) ==
        Dragged(WithWorld(M, UpdateConnSet(WorldOf(M), Touching(PairNodes(d.snapshot), E), E)),
                d)
      Begun(d) == Updated(d, EnvOf(M, d, grid))
      State(snapshot, esnap) ==
        Begun(DragState(TRUE, root_node, M.pos[root_node], snapshot, esnap, snapshot))
      From(descendants) ==
        State(Snap(Dedupe(<<root_node>> \o descendants)),
              ESnap(TouchingList({root_node} \cup SeqToSet(descendants))))
  IN  From(get_descendants(root_node, M.scene, M.conn, M.connections))

\* the result of a step that may push commands: history, drag state, the
\* number of commands pushed
Ended(H, d, pushed) == [h |-> H, d |-> d, pushed |-> pushed]

\* MindMapView.end_subtree_drag
end_subtree_drag(H, d, grid) ==
  IF ~d.mode THEN Ended(H, d, 0)
  ELSE LET M == H.m
           d1 == DragState(FALSE, None, NoPos, <<>>, <<>>, d.orig)
           Updated(M2, E2) ==
             UpdateConnSet(WorldOf(M2), Touching(PairNodes(d.snapshot), E2), E2)
           Cleared(H1, M2) ==
             Ended([H1 EXCEPT !.m = WithWorld(M2, relayout(Updated(M2, EnvOf(M2, d, grid)),
                                                           EnvOf(M2, d1, grid)))],
                   d1, 1)
           Pushed(H1) == Cleared(H1, H1.m)
           Recorded(W1) ==
             Pushed(PushCmd(H, SubtreeMoveRedo(
                                 WithWorld(M, W1),
                                 SubtreeMoveCommand(
                                   d.root, d.snapshot,
                                   [i \in DOMAIN d.snapshot |->
                                      <<d.snapshot[i][1], W1.pos[d.snapshot[i][1]]>>],
                                   d.esnap),
                                 d, grid)))
           Snapped(snapped_root_pos, original_root_pos) ==
             Recorded(IF grid
                      THEN update_subtree_drag(WorldOf(M),
                                               snapped_root_pos[1] - original_root_pos[1],
                                               snapped_root_pos[2] - original_root_pos[2],
                                               EnvOf(M, d, grid))
                      ELSE WorldOf(M))
       IN  Snapped(snap_to_grid(M.pos[d.root], grid), d.snapshot[1][2])

\* ------------------------------------------------- NodeItem mouse handlers
\* the result of mouseReleaseEvent: history, drag state, the node's
\* _press_pos, the branch taken, the number of commands pushed and, for a
\* lane insertion, what _check_lane_insertion returned and what
\* _reposition_lane_nodes did
NoLane == [nodes |-> <<>>, index |-> 0, ordered |-> <<>>]
\* for an alignment: the levels it worked on and the positions before it
NoAlign == [gens |-> <<>>, pos |-> <<>>]
\* the attraction mode off, nothing saved
NoAttraction == [mode |-> FALSE, positions |-> <<>>, connections |-> <<>>, ticks |-> 0]
\* for a start or stop of the attraction mode: the attraction state before
NoWas == [attraction |-> NoAttraction, geom |-> <<>>, pos |-> <<>>]
\* for an addition: the positions, edge lists and selection it started from
NoFrom == [pos |-> <<>>, edges |-> <<>>, sel |-> {}]
Released(H, d, pp, branch, pushed, lane) ==
  [h |-> H, d |-> d, pp |-> pp, branch |-> branch, pushed |-> pushed, lane |-> lane]

\* the end of every branch that ends the drag (node.py 209-210, 240-241,
\* 275-276)
EndIf(should_end, H, d, grid) ==
  IF should_end THEN end_subtree_drag(H, d, grid) ELSE Ended(H, d, 0)

\* node.py 204-212: lane insertion
ReleaseLane(H, d, node, lane, should_end, grid) ==
  LET Done(e, r) ==
        Released(e.h, e.d, NoPos, "lane", e.pushed,
                 [nodes |-> lane[2], index |-> lane[3], ordered |-> r.ordered,
                  pre |-> r.pre, post |-> r.m])
      Placed(r) == Done(EndIf(should_end, [H EXCEPT !.m = r.m], d, grid), r)
  IN  Placed(_reposition_lane_nodes(H.m, InsertAt(lane[2], lane[3], node), d, grid))

\* node.py 219-242: the positions are put back and the drag is ended; the
\* node's _press_pos stays
ReleaseCollision(H, d, node, press_pos, should_end, grid) ==
  LET M == H.m
      Done(e) == Released(e.h, e.d, press_pos, "collision", e.pushed, NoLane)
      Back(others) ==
        [i \in DOMAIN others |->
           <<others[i], (d.orig[CHOOSE j \in DOMAIN d.orig : d.orig[j][1] = others[i]])[2]>>]
      Restored(E) ==
        UpdateConnSet(
          _update_attached_lines(
            SetPos(IF d.mode /\ node = d.root
                   THEN SetPosAll(WorldOf(M),
                                  Back(FilterSeq([i \in DOMAIN d.orig |-> d.orig[i][1]],
                                                 PairNodes(d.orig) \ {node})), E)
                   ELSE WorldOf(M),
                   node, press_pos, E),
            node, E),
          Touching({node}, E), E)
  IN  Done(EndIf(should_end, [H EXCEPT !.m = WithWorld(M, Restored(EnvOf(M, d, grid)))],
                 d, grid))

\* node.py 245-278: a move of more than five units pushes a MoveNodeCommand,
\* then the drag is ended
ReleaseMoved(H, d, node, press_pos, should_end, grid) ==
  LET M == H.m
      dx == M.pos[node][1] - press_pos[1]
      dy == M.pos[node][2] - press_pos[2]
      Done(e, far) ==
        Released(e.h, e.d, NoPos, IF far THEN "moved" ELSE "near",
                 e.pushed + (IF far THEN 1 ELSE 0), NoLane)
      Moved(far) ==
        Done(EndIf(should_end,
                   IF far
                   THEN PushCmd(H, MoveNodeRedo(M, MoveNodeCommand(node, press_pos, M.pos[node]),
                                                d, grid))
                   ELSE H,
                   d, grid), far)
  IN  Moved(Abs(dx) > MoveThreshold \/ Abs(dy) > MoveThreshold
            \/ dx * dx + dy * dy > MoveThreshold * MoveThreshold)

\* NodeItem.mouseReleaseEvent with the left button
mouseReleaseEvent(H, d, node, press_pos, shift, grid) ==
  LET M == H.m
      should_end == ~shift
      Still(e) == Released(e.h, e.d, NoPos, "still", e.pushed, NoLane)
      Dropped(lane) ==
        IF lane[1] THEN ReleaseLane(H, d, node, lane, should_end, grid)
        ELSE IF \/ _check_node_collision(node, M.pos[node], M)
                \/ (d.mode /\ node = d.root /\ _check_subtree_collision(node, M))
        THEN ReleaseCollision(H, d, node, press_pos, should_end, grid)
        ELSE ReleaseMoved(H, d, node, press_pos, should_end, grid)
  IN  IF press_pos = NoPos \/ press_pos = M.pos[node]
      THEN Still(EndIf(should_end, H, d, grid))
      ELSE Dropped(_check_lane_insertion(node, M.pos[node], M))

\* --------------------------------------------------------- attraction mode
\* the visible part of the scene, mapToScene(viewport().rect()): a window of
\* 2000 by 2000 centred on the origin
view_rect == Rect(-1000 * U, -1000 * U, 2000 * U, 2000 * U)

\* MindMapView.start_attraction_mode: the positions of the scene's nodes and
\* the segments of the listed connections are saved
start_attraction_mode(M, a) ==
  IF a.mode THEN a
  ELSE [mode |-> TRUE,
        positions |-> [i \in DOMAIN M.scene |->
                         <<SceneItems(M.scene)[i], M.pos[SceneItems(M.scene)[i]]>>],
        connections |-> [i \in DOMAIN M.connections |->
                           <<M.connections[i], M.geom[M.connections[i]]>>],
        ticks |-> a.ticks]

\* MindMapView.stop_attraction_mode: setPos of every saved position, then
\* the saved segments are set on the listed connections that have some, and
\* the others are recomputed
stop_attraction_mode(M, a, d, grid) ==
  IF ~a.mode THEN M
  ELSE LET Saved(c) == {i \in DOMAIN a.connections : a.connections[i][1] = c}
           Lines(M1) ==
             [M1 EXCEPT !.geom = [c \in ConnIds |->
                IF c \notin SeqToSet(M1.connections) THEN M1.geom[c]
                ELSE IF Saved(c) # {} THEN a.connections[CHOOSE i \in Saved(c) : TRUE][2]
                ELSE update_connection(M1.pos, M1.sel, M1.conn[c].source,
                                       M1.conn[c].target)]]
       IN  Lines(WithWorld(M, SetPosAll(WorldOf(M), a.positions, EnvOf(M, d, grid))))

\* the clamp of _update_attraction (view.py 603-606), bounds doubled
Clamp2(lo, hi, v) == Max2(lo, Min2(hi, v))
Clamped(M, n, p) ==
  << Clamp2(2 * view_rect.l + BoundingW(n, M.sel), 2 * view_rect.r - BoundingW(n, M.sel),
            2 * p[1]) \div 2,
     Clamp2(2 * view_rect.t + BoundingH(n, M.sel), 2 * view_rect.b - BoundingH(n, M.sel),
            2 * p[2]) \div 2 >>

\* the node loop of _update_attraction: move[n] is the random step of node n
RECURSIVE Jiggle(_, _, _, _, _)
Jiggle(M, nodes, move, d, grid) ==
  IF nodes = <<>> THEN M
  ELSE Jiggle(MSetPos(M, Head(nodes),
                      Clamped(M, Head(nodes),
                              <<M.pos[Head(nodes)][1] + move[Head(nodes)][1],
                                M.pos[Head(nodes)][2] + move[Head(nodes)][2]>>),
                      d, grid),
              Tail(nodes), move, d, grid)

\* MindMapView._update_attraction
_update_attraction(M, a, move, d, grid) ==
  IF ~a.mode \/ M.scene = <<>> THEN M
  ELSE LET Relaid(M1) == WithWorld(M1, relayout(WorldOf(M1), EnvOf(M1, d, grid)))
       IN  Relaid(Jiggle(M, SceneItems(M.scene), move, d, grid))

\* ------------------------------------------------------------------- JSON
NoDoc == [nodes |-> <<>>, edges |-> <<>>]

\* the "edges" list of _export_to_json: for every node of scene.items(), one
\* entry per element of its _edges whose other end has an id
RECURSIVE ExportEdges(_, _)
ExportEdges(items, M) ==
  IF items = <<>> THEN <<>>
  ELSE LET item == Head(items)
           es == M.edges[item]
           kept == FilterSeq([i \in DOMAIN es |-> i],
                             {i \in DOMAIN es : es[i][2] \in SeqToSet(M.scene)})
       IN  [i \in DOMAIN kept |-> [source |-> item, target |-> es[kept[i]][2]]]
           \o ExportEdges(Tail(items), M)

\* MindMapView._export_to_json: the document; a node's id is the node itself
_export_to_json(M) ==
  LET items == SceneItems(M.scene)
  IN  [nodes |-> [i \in DOMAIN items |->
                    [id |-> items[i], text |-> M.text[items[i]],
                     x |-> M.pos[items[i]][1], y |-> M.pos[items[i]][2]]],
       edges |-> ExportEdges(items, M)]

\* the node loop of _import_from_json: add_node for each entry; node_map maps
\* the ids of the document to the new objects
RECURSIVE ImportNodes(_, _, _, _, _)
ImportNodes(M, nodes, node_map, d, grid) ==
  IF nodes = <<>> THEN [m |-> M, node_map |-> node_map]
  ELSE ImportNodes(add_node(M, Head(nodes).text, <<Head(nodes).x, Head(nodes).y>>, d, grid),
                   Tail(nodes), Append(node_map, <<Head(nodes).id, M.nextNode>>), d, grid)

MapGet(node_map, id) ==
  IF \E i \in DOMAIN node_map : node_map[i][1] = id
  THEN node_map[CHOOSE i \in DOMAIN node_map :
                  node_map[i][1] = id /\ \A j \in DOMAIN node_map :
                                            node_map[j][1] = id => j <= i][2]
  ELSE None

\* the edge loop of _import_from_json
RECURSIVE ImportEdges(_, _, _, _, _)
ImportEdges(M, es, node_map, d, grid) ==
  IF es = <<>> THEN M
  ELSE LET Joined(source, target) ==
             IF source # None /\ target # None
             THEN _create_edge(M, source, target, d, grid) ELSE M
       IN  ImportEdges(Joined(MapGet(node_map, Head(es).source),
                              MapGet(node_map, Head(es).target)),
                       Tail(es), node_map, d, grid)

\* scene.clear(): every item is deleted; view.connections keeps its entries
SceneClear(M) ==
  [M EXCEPT !.scene = <<>>, !.sel = {},
            !.conn = [c \in ConnIds |-> [M.conn[c] EXCEPT !.live = FALSE]]]

\* MindMapView._import_from_json.  When view.connections still lists a
\* connection of the cleared scene, the relayout() of the first add_node
\* reaches deleted items: either that raises, and the except clause ends the
\* import with the first node in the scene, or it does not.
\* fault says what is wrong with the text: "parse" (json.loads raises, before
\* the scene is touched), "node" (entry k of "nodes" has no "text": the
\* KeyError ends the node loop before its add_node), "edge" (entry k of
\* "edges" has no "source": the KeyError ends the edge loop), or "none".
_import_from_json(M, document, raises, fault, k, d, grid) ==
  LET nd == document.nodes[1]
      Entered(M1, n) == [M1 EXCEPT !.scene = Append(M1.scene, n)]
      Placed(M1, n, p1) ==
        Entered(WithWorld(M1, SetPos(WorldOf(M1), n, p1, EnvOf(M1, d, grid))), n)
      Interrupted(M0, n) ==
        Placed([M0 EXCEPT !.nextNode = n + 1, !.pos[n] = <<0, 0>>,
                          !.text[n] = nd.text, !.edges[n] = <<>>],
               n, _find_collision_free_position(<<nd.x, nd.y>>, M0.pos, M0.scene, M0.sel))
      Linked(r, es) == ImportEdges(r.m, es, r.node_map, d, grid)
      Loaded(M0) ==
        IF document.nodes = <<>> \/ (fault = "node" /\ k = 1) THEN M0
        ELSE IF raises THEN Interrupted(M0, M0.nextNode)
        ELSE IF fault = "node"
        THEN ImportNodes(M0, SubSeq(document.nodes, 1, k - 1), <<>>, d, grid).m
        ELSE Linked(ImportNodes(M0, document.nodes, <<>>, d, grid),
                    IF fault = "edge" THEN SubSeq(document.edges, 1, k - 1)
                    ELSE document.edges)
  IN  IF fault = "parse" THEN M ELSE Loaded(SceneClear(M))

\* ------------------------------------------------------------ observation
\* What the user sees of a scene record, without object identities: the
\* nodes as counted <<position, text>> and the listed connections as counted
\* pairs of such ends.
NodeView(M, n) == <<M.pos[n], M.text[n]>>
ViewOf(M) ==
  LET nv == {NodeView(M, n) : n \in SeqToSet(M.scene)}
      ev(c) == <<NodeView(M, M.conn[c].source), NodeView(M, M.conn[c].target)>>
      evs == {ev(c) : c \in SeqToSet(M.connections)}
  IN  [nodes |-> {<<v, Cardinality({i \in DOMAIN M.scene : NodeView(M, M.scene[i]) = v})>>
                    : v \in nv},
       edges |-> {<<e, Cardinality({i \in DOMAIN M.connections : ev(M.connections[i]) = e})>>
                    : e \in evs}]
NoView == [nodes |-> {}, edges |-> {}]

\* The graph a scene record shows: the counted labels of its nodes and the
\* counted label pairs of the connections whose lines are in the scene.
GraphOf(M) ==
  LET shown == FilterSeq(M.connections,
                         {c \in SeqToSet(M.connections) :
                            /\ M.conn[c].live
                            /\ M.conn[c].source \in SeqToSet(M.scene)
                            /\ M.conn[c].target \in SeqToSet(M.scene)})
      link(c) == <<M.text[M.conn[c].source], M.text[M.conn[c].target]>>
  IN  [n |-> Len(M.scene),
       m |-> Len(shown),
       labels |-> {<<t, Cardinality({i \in DOMAIN M.scene : M.text[M.scene[i]] = t})>>
                     : t \in {M.text[x] : x \in SeqToSet(M.scene)}},
       links |-> {<<l, Cardinality({i \in DOMAIN shown : link(shown[i]) = l})>>
                    : l \in {link(c) : c \in SeqToSet(shown)}}]

\* The record kept of the last operation: its kind, the command it pushed or
\* undid, the view before it, and what the drag and the add-node handlers did.
NoObs ==
  [op |-> "init", cmd |-> NullCmd, pre |-> NoView, fresh |-> FALSE,
   branch |-> "", pushed |-> 0, dragging |-> FALSE, overlap |-> FALSE,
   node |-> None, pref |-> NoPos,
   exhausted |-> FALSE, undos |-> 0, redos |-> 0, base |-> NoView,
   fault |-> "none", depth |-> 0, lane |-> NoLane, align |-> NoAlign,
   was |-> NoWas, from |-> NoFrom, found |-> NoPos, multi |-> NoMulti]
Obs(op) == [NoObs EXCEPT !.op = op]

\* ------------------------------------------------------------------- inputs
RenameTexts == {"renamed"}
\* the releases of the model are made without Shift
ShiftAtRelease == {FALSE}
\* what can be wrong with the text handed to _import_from_json
ImportFaults == {"none", "parse", "node", "edge"}
\* the steps random.uniform(-5, 5) gives a node on a timer tick
Jitter == {<<5 * U, -3 * U>>, <<-5 * U, 3 * U>>}
\* the node lists _find_collision_free_position is called with on its own:
\* cols by rows nodes, 280 apart in X and 180 apart in Y, around the origin;
\* no point between two neighbours is free
Lattice(cols, rows) ==
  [i \in 1..(cols * rows) |->
     << (((i - 1) % cols) - (cols \div 2)) * 280 * U,
        (((i - 1) \div cols) - (rows \div 2)) * 180 * U >>]
FreeLayouts == {Lattice(3, 3), Lattice(1, 1), Lattice(1, 3), Lattice(3, 1), Lattice(0, 0)}
FreePrefs ==
  {<<x * U, y * U>> : x \in {-100, -50, 0, 50, 100}, y \in {-100, -50, 0, 50, 100}}
\* a preferred position with a node list: the small lists with every
\* position, the list that leaves no ring point free with the origin
FreeInputs == (FreePrefs \X FreeLayouts) \cup {<< <<0, 0>>, Lattice(9, 13) >>}
\* the boxes, steps of push_down_until_no_collision called on its own:
\* a node-sized box and a larger one, on and off the nodes of the scene
PushBoxes ==
  {BBox(x, y, wh[1], wh[2]) :
     x \in {0, 250 * U, 1000 * U}, y \in {0, -50 * U},
     wh \in {<<NODE_WIDTH, NODE_HEIGHT>>, <<200 * U, 150 * U>>}}
PushSteps == {7 * U, 40 * U, VERTICAL_GAP}
DragTargets == {<<60 * U, 80 * U>>, <<100 * U, 40 * U>>, <<0, 200 * U>>, <<3 * U, 4 * U>>}

\* -------------------------------------------------------------------- Init
\* MainWindow.__init__: the centre node at the origin, selected; an empty
\* undo stack; grid snapping on
Init ==
  /\ nextNode = 2
  /\ nextConn = 1
  /\ pos = [n \in NodeIds |-> <<0, 0>>]
  /\ text = [n \in NodeIds |-> IF n = 1 THEN CenterLabel ELSE ""]
  /\ edges = [n \in NodeIds |-> <<>>]
  /\ pressPos = [n \in NodeIds |-> NoPos]
  /\ sceneNodes = <<1>>
  /\ selected = {1}
  /\ conn = [c \in ConnIds |-> [source |-> None, target |-> None, live |-> FALSE]]
  /\ geom = [c \in ConnIds |-> NoGeom]
  /\ connections = <<>>
  /\ stack = <<>>
  /\ stackIdx = 0
  /\ nextCmd = 1
  /\ gridSnap = TRUE
  /\ drag = IdleDrag
  /\ grab = None
  /\ pending = None
  /\ doc = NoDoc
  /\ aligns = 0
  /\ attraction = NoAttraction
  /\ loop = NoLoop
  /\ multi = NoMulti
  /\ last = NoObs

\* the scene record and the undo stack written back to the variables
SetScene(M) ==
  /\ nextNode' = M.nextNode
  /\ nextConn' = M.nextConn
  /\ pos' = M.pos
  /\ text' = M.text
  /\ edges' = M.edges
  /\ sceneNodes' = M.scene
  /\ selected' = M.sel
  /\ conn' = M.conn
  /\ geom' = M.geom
  /\ connections' = M.connections
SetHist(H) ==
  /\ SetScene(H.m)
  /\ stack' = H.stack
  /\ stackIdx' = H.idx
  /\ nextCmd' = H.made + 1

Idle == grab = None

\* ------------------------------------------------------------------ actions
\* the search of add_node found no free point for the preferred position
SearchExhausted(pt, M) ==
  /\ ~_is_position_free(pt, M.pos, M.scene, M.sel)
  /\ \A i \in 1..SpiralCount : ~_is_position_free(SpiralPoint(pt, i), M.pos, M.scene, M.sel)

\* MainWindow._add_node: a child of the selected node, or a new parent-level
\* node when nothing is selected
AddNode ==
  /\ Idle
  /\ nextNode <= MaxNodeObjs
  /\ nextCmd <= MaxCmdObjs
  /\ \E parent_node \in (IF selected = {} THEN {None} ELSE selected) :
       /\ parent_node # None => nextConn <= MaxConnObjs
       /\ LET Pushed(H, new_pos) ==
                /\ SetHist(H)
                /\ last' = [Obs("push") EXCEPT !.cmd = H.stack[H.idx], !.pre = ViewOf(St),
                                               !.node = nextNode, !.pref = new_pos,
                                               !.exhausted = SearchExhausted(new_pos, St),
                                               !.from = [pos |-> pos, edges |-> edges,
                                                         sel |-> selected]]
              Placed(new_pos) ==
                Pushed(PushCmd(Hist, AddNodeRedo(St, AddNodeCommand(NewLabel, parent_node,
                                                                    new_pos),
                                                 drag, gridSnap)), new_pos)
          IN  Placed(IF parent_node # None
                     THEN _calculate_smart_position(parent_node, St, gridSnap)
                     ELSE _calculate_parent_node_position(St, gridSnap))
  /\ UNCHANGED <<multi, loop, aligns, attraction, pressPos, gridSnap, drag, grab, pending, doc>>

\* a left press on the empty background: the rubber band clears the selection
ClickEmpty ==
  /\ Idle
  /\ selected # {}
  /\ selected' = {}
  /\ last' = Obs("deselect")
  /\ UNCHANGED <<multi, loop, aligns, attraction, nextNode, nextConn, pos, text, edges, pressPos, sceneNodes, conn, geom,
                 connections, stack, stackIdx, nextCmd, gridSnap, drag, grab, pending, doc>>

\* MindMapView._navigate_to_nearest_node: the first node of scene.items()
\* at the least distance among those strictly in the direction
RECURSIVE NearestIn(_, _, _, _)
NearestIn(items, best, cur, p) ==
  IF items = <<>> THEN best
  ELSE LET d2(m) == (p[m][1] - p[cur][1]) * (p[m][1] - p[cur][1])
                    + (p[m][2] - p[cur][2]) * (p[m][2] - p[cur][2])
       IN  NearestIn(Tail(items),
                     IF best = None \/ d2(Head(items)) < d2(best) THEN Head(items) ELSE best,
                     cur, p)

_navigate_to_nearest_node(M, current_node, direction) ==
  LET toward == {n \in SeqToSet(M.scene) \ {current_node} :
                   CASE direction = "Up" -> M.pos[n][2] < M.pos[current_node][2]
                     [] direction = "Down" -> M.pos[n][2] > M.pos[current_node][2]
                     [] direction = "Left" -> M.pos[n][1] < M.pos[current_node][1]
                     [] direction = "Right" -> M.pos[n][1] > M.pos[current_node][1]}
  IN  NearestIn(FilterSeq(SceneItems(M.scene), toward), None, current_node, M.pos)

\* an arrow key (MindMapView.keyPressEvent, 850-851)
Navigate ==
  /\ Idle
  /\ \E current_node \in selected : \E direction \in {"Up", "Down", "Left", "Right"} :
       LET Found(nearest_node) ==
             /\ selected = {current_node}
             /\ nearest_node # None
             /\ selected' = (selected \ {current_node}) \cup {nearest_node}
       IN  Found(_navigate_to_nearest_node(St, current_node, direction))
  /\ last' = Obs("navigate")
  /\ UNCHANGED <<multi, loop, aligns, attraction, nextNode, nextConn, pos, text, edges, pressPos, sceneNodes, conn, geom,
                 connections, stack, stackIdx, nextCmd, gridSnap, drag, grab, pending, doc>>

\* the attraction action of the toolbar switched on (main.py 761-764)
StartAttraction ==
  /\ Idle
  /\ attraction' = start_attraction_mode(St, attraction)
  /\ last' = [Obs("start") EXCEPT
                !.was = [attraction |-> attraction, geom |-> geom, pos |-> pos]]
  /\ UNCHANGED <<multi, loop, nextNode, nextConn, pos, text, edges, pressPos, sceneNodes, selected,
                 conn, geom, connections, stack, stackIdx, nextCmd, gridSnap, drag, grab,
                 pending, doc, aligns>>

\* a timeout of _attraction_timer
UpdateAttraction ==
  /\ Idle
  /\ attraction.mode
  /\ attraction.ticks < MaxTicks
  /\ \E move \in [NodeIds -> Jitter] :
       SetScene(_update_attraction(St, attraction, move, drag, gridSnap))
  /\ attraction' = [attraction EXCEPT !.ticks = @ + 1]
  /\ last' = Obs("tick")
  /\ UNCHANGED <<multi, loop, pressPos, stack, stackIdx, nextCmd, gridSnap, drag, grab, pending, doc,
                 aligns>>

\* the attraction action switched off, or Escape (main.py 765-767, view.py
\* 679-680)
StopAttraction ==
  /\ Idle
  /\ SetScene(stop_attraction_mode(St, attraction, drag, gridSnap))
  /\ attraction' = IF attraction.mode
                   THEN [NoAttraction EXCEPT !.ticks = attraction.ticks] ELSE attraction
  /\ last' = [Obs("stop") EXCEPT
                !.was = [attraction |-> attraction, geom |-> geom, pos |-> pos]]
  /\ UNCHANGED <<multi, loop, pressPos, stack, stackIdx, nextCmd, gridSnap, drag, grab, pending, doc,
                 aligns>>

\* the toolbar's align action (main.py 270)
Align ==
  /\ Idle
  /\ sceneNodes # <<>>
  /\ aligns < MaxAligns
  /\ aligns' = aligns + 1
  /\ SetScene(align_generations_and_avoid_line_overlap(St, drag, gridSnap))
  /\ last' = [Obs("align") EXCEPT !.align = [gens |-> GenerationsOf(St), pos |-> pos]]
  /\ UNCHANGED <<multi, loop, attraction, pressPos, stack, stackIdx, nextCmd, gridSnap, drag, grab, pending, doc>>

\* a left press on a node without Shift: MindMapView.mousePressEvent falls
\* through to NodeItem.mousePressEvent, then the item is selected alone
Press ==
  /\ Idle
  /\ Cardinality(selected) <= 1
  /\ nextCmd + 1 <= MaxCmdObjs
  /\ \E n \in SeqToSet(sceneNodes) :
       LET Begun(b) ==
             /\ SetScene([b.m EXCEPT !.sel = {n}])
             /\ drag' = b.d
             /\ pressPos' = [pressPos EXCEPT ![n] = pos[n]]
             /\ grab' = n
       IN  Begun(begin_subtree_drag(St, n, gridSnap))
  /\ last' = [Obs("press") EXCEPT !.pre = ViewOf(St), !.from = [NoFrom EXCEPT !.pos = pos]]
  /\ UNCHANGED <<multi, loop, aligns, attraction, stack, stackIdx, nextCmd, gridSnap, pending, doc>>

\* a mouse move with the button held: setPos on the grabbed node; the
\* gestures on one node are followed while no move of several nodes has left
\* its flag set
MoveTo ==
  /\ ~Idle
  /\ ~multi.in_progress
  /\ \E p \in DragTargets :
       /\ p # pos[grab]
       /\ SetScene(WithWorld(St, SetPos(WorldOf(St), grab, p, EnvOf(St, drag, gridSnap))))
  /\ last' = [Obs("move") EXCEPT !.pre = last.pre, !.from = last.from]
  /\ UNCHANGED <<multi, loop, aligns, attraction, pressPos, stack, stackIdx, nextCmd, gridSnap, drag, grab, pending, doc>>

\* the release of the left button over the grabbed node
ReleaseWith(shift) ==
  /\ ~multi.in_progress
  /\ LET Done(r) ==
             /\ SetHist(r.h)
             /\ drag' = r.d
             /\ pressPos' = [pressPos EXCEPT ![grab] = r.pp]
             /\ last' = [Obs(IF r.pushed = 1 THEN "push" ELSE "release") EXCEPT
                           !.cmd = IF r.pushed > 0 THEN r.h.stack[r.h.idx] ELSE NullCmd,
                           !.pre = last.pre, !.branch = r.branch, !.pushed = r.pushed,
                           !.dragging = drag.mode /\ drag.root = grab /\ ~shift,
                           !.overlap = _check_subtree_collision(grab, St), !.node = grab,
                           !.lane = r.lane]
     IN  Done(mouseReleaseEvent(Hist, drag, grab, pressPos[grab], shift, gridSnap))
  /\ grab' = None
  /\ UNCHANGED <<multi, loop, aligns, attraction, gridSnap, pending, doc>>

Release ==
  /\ ~Idle
  /\ \E shift \in ShiftAtRelease : ReleaseWith(shift)

\* the release of the left button with Shift held, after a press that did
\* not move the node
ShiftRelease ==
  /\ ~Idle
  /\ pos[grab] = pressPos[grab]
  /\ ReleaseWith(TRUE)

\* QUndoStack.undo
Undo ==
  /\ Idle
  /\ stackIdx > 0
  /\ nextNode + NodesMadeByUndo(stack[stackIdx]) <= MaxNodeObjs + 1
  /\ SetHist(UndoCmd(Hist, drag, gridSnap))
  /\ last' = [Obs("undo") EXCEPT
                !.cmd = stack[stackIdx], !.pre = last.pre, !.fresh = (last.op = "push"),
                !.undos = IF last.op = "undo" THEN last.undos + 1 ELSE 1,
                !.base = IF last.op = "undo" THEN last.base ELSE ViewOf(St)]
  /\ UNCHANGED <<multi, loop, aligns, attraction, pressPos, gridSnap, drag, grab, pending, doc>>

\* QUndoStack.redo
Redo ==
  /\ Idle
  /\ stackIdx < Len(stack)
  /\ nextNode + NodesMadeByRedo(stack[stackIdx + 1]) <= MaxNodeObjs + 1
  /\ nextConn + ConnsMadeByRedo(stack[stackIdx + 1]) <= MaxConnObjs + 1
  /\ SetHist(RedoCmd(Hist, drag, gridSnap))
  /\ last' = [Obs("redo") EXCEPT
                !.cmd = stack[stackIdx + 1],
                !.undos = IF last.op \in {"undo", "redo"} THEN last.undos ELSE 0,
                !.redos = IF last.op \in {"undo", "redo"} THEN last.redos + 1 ELSE 0,
                !.base = IF last.op \in {"undo", "redo"} THEN last.base ELSE NoView]
  /\ UNCHANGED <<multi, loop, aligns, attraction, pressPos, gridSnap, drag, grab, pending, doc>>

\* MindMapView._delete_selected_nodes
DeleteSelected ==
  /\ Idle
  /\ nextCmd <= MaxCmdObjs
  /\ \E n \in selected :
       /\ selected = {n}
       /\ LET Pushed(H) ==
                /\ SetHist(H)
                /\ last' = [Obs("push") EXCEPT !.cmd = H.stack[H.idx], !.pre = ViewOf(St),
                                               !.node = n]
          IN  Pushed(PushCmd(Hist, DeleteNodeRedo(St, DeleteNodeCommand(n, text[n], pos[n]))))
  /\ UNCHANGED <<multi, loop, aligns, attraction, pressPos, gridSnap, drag, grab, pending, doc>>

\* a left press on a node with Shift (MindMapView.mousePressEvent, 632-648):
\* the first click marks the source, the second pushes a ConnectNodesCommand.
\* The gestures of the model keep at most one node selected and close no
\* directed cycle of connections; the source may have left the scene since
\* the first click.  A second click on the source itself is left out.
ShiftClick ==
  /\ Idle
  /\ \E n \in SeqToSet(sceneNodes) :
       IF pending = None
       THEN /\ selected \subseteq {n}
            /\ pending' = n
            /\ selected' = selected \cup {n}
            /\ last' = Obs("mark")
            /\ UNCHANGED <<aligns, attraction, nextNode, nextConn, pos, text, edges, sceneNodes, conn, geom,
                           connections, stack, stackIdx, nextCmd>>
       ELSE /\ n # pending
            /\ ~Reaches(n, pending, sceneNodes, conn, connections)
            /\ nextConn <= MaxConnObjs
            /\ nextCmd <= MaxCmdObjs
            /\ LET Pushed(H) ==
                     /\ SetHist([H EXCEPT !.m.sel = H.m.sel \ {pending}])
                     /\ last' = [Obs("push") EXCEPT !.cmd = H.stack[H.idx],
                                                    !.pre = ViewOf(St)]
               IN  Pushed(PushCmd(Hist, ConnectNodesRedo(St, ConnectNodesCommand(pending, n),
                                                         drag, gridSnap)))
            /\ pending' = None
  /\ UNCHANGED <<multi, loop, aligns, attraction, pressPos, gridSnap, drag, grab, doc>>

\* the Escape key with a pending source (view.py 846-849)
Escape ==
  /\ Idle
  /\ pending # None
  /\ pending' = None
  /\ selected' = selected \ {pending}
  /\ last' = Obs("escape")
  /\ UNCHANGED <<multi, loop, aligns, attraction, nextNode, nextConn, pos, text, edges, pressPos,
                 sceneNodes, conn, geom, connections, stack, stackIdx, nextCmd, gridSnap, drag,
                 grab, doc>>

\* InlineTextEditor._finish_editing with a changed, non-empty text, on the
\* selected node
Rename ==
  /\ Idle
  /\ nextCmd <= MaxCmdObjs
  /\ \E n \in selected : \E t \in RenameTexts :
       /\ t # text[n]
       /\ LET Pushed(H) ==
                /\ SetHist(H)
                /\ last' = [Obs("push") EXCEPT !.cmd = H.stack[H.idx], !.pre = ViewOf(St),
                                               !.node = n]
          IN  Pushed(PushCmd(Hist, RenameNodeRedo(St, RenameNodeCommand(n, text[n], t))))
  /\ UNCHANGED <<multi, loop, aligns, attraction, pressPos, gridSnap, drag, grab, pending, doc>>

\* MainWindow._toggle_grid_snap
ToggleGridSnap ==
  /\ Idle
  /\ gridSnap' = ~gridSnap
  /\ last' = Obs("snap")
  /\ UNCHANGED <<multi, loop, aligns, attraction, nextNode, nextConn, pos, text, edges, pressPos, sceneNodes, selected,
                 conn, geom, connections, stack, stackIdx, nextCmd, drag, grab, pending, doc>>

\* MainWindow._save_mindmap
Export ==
  /\ Idle
  /\ doc' = _export_to_json(St)
  /\ doc' # doc
  /\ last' = [Obs("export") EXCEPT !.pre = GraphOf(St)]
  /\ UNCHANGED <<multi, loop, aligns, attraction, nextNode, nextConn, pos, text, edges, pressPos, sceneNodes, selected,
                 conn, geom, connections, stack, stackIdx, nextCmd, gridSnap, drag, grab,
                 pending>>

\* MainWindow._load_mindmap of the document written last
Import ==
  /\ Idle
  /\ doc # NoDoc
  /\ nextNode + Len(doc.nodes) <= MaxNodeObjs + 1
  /\ nextConn + Len(doc.edges) <= MaxConnObjs + 1
  /\ \E raises \in (IF connections = <<>> THEN {FALSE} ELSE BOOLEAN) :
     \E fault \in ImportFaults : \E k \in 1..MaxNodeObjs :
       /\ fault \in {"none", "parse"} => k = 1
       /\ fault = "node" => k \in DOMAIN doc.nodes
       /\ fault = "edge" => k \in DOMAIN doc.edges
       /\ SetHist([m |-> _import_from_json(St, doc, raises, fault, k, drag, gridSnap),
                   stack |-> IF fault = "parse" THEN stack ELSE <<>>,
                   idx |-> IF fault = "parse" THEN stackIdx ELSE 0,
                   made |-> nextCmd - 1])
       /\ last' = [Obs("import") EXCEPT !.pre = last.pre, !.fresh = (last.op = "export"),
                                       !.base = ViewOf(St), !.fault = fault,
                                       !.depth = Len(stack)]
  /\ UNCHANGED <<multi, loop, aligns, attraction, pressPos, gridSnap, drag, grab, pending, doc>>

\* _find_collision_free_position is called with a position and a list of
\* nodes, none of them selected
FindFreeCall ==
  /\ Idle
  /\ ~loop.active
  /\ last.op # "seek"
  /\ \E input \in FreeInputs :
       last' = [Obs("seek") EXCEPT
                  !.pref = input[1], !.from = [NoFrom EXCEPT !.pos = input[2]]]
  /\ UNCHANGED <<nextNode, nextConn, pos, text, edges, pressPos, sceneNodes, selected,
                 conn, geom, connections, stack, stackIdx, nextCmd, gridSnap, drag, grab,
                 pending, doc, aligns, attraction, multi, loop>>

\* _find_collision_free_position returns (view.py 1433-1475)
FindFree ==
  /\ last.op = "seek"
  /\ last' = [Obs("find") EXCEPT
                !.pref = last.pref, !.from = last.from,
                !.found = _find_collision_free_position(
                            last.pref, last.from.pos, [i \in DOMAIN last.from.pos |-> i], {})]
  /\ UNCHANGED <<nextNode, nextConn, pos, text, edges, pressPos, sceneNodes, selected,
                 conn, geom, connections, stack, stackIdx, nextCmd, gridSnap, drag, grab,
                 pending, doc, aligns, attraction, multi, loop>>

\* push_down_until_no_collision is called with a box, a step and a node to
\* leave out (view.py 1294-1309)
PushDownCall ==
  /\ Idle
  /\ ~loop.active
  /\ \E bbox \in PushBoxes : \E step \in PushSteps :
       \E exclude_node \in SeqToSet(sceneNodes) \cup {None} :
          loop' = [active |-> TRUE, bbox |-> bbox, given |-> bbox, step |-> step,
                   exclude_node |-> exclude_node]
  /\ last' = Obs("call")
  /\ UNCHANGED <<nextNode, nextConn, pos, text, edges, pressPos, sceneNodes, selected,
                 conn, geom, connections, stack, stackIdx, nextCmd, gridSnap, drag, grab,
                 pending, doc, aligns, attraction, multi>>

\* the loop's turn with the bottom of the bbox left as it was
PushDownStep_StaleBottom ==
  /\ loop.active
  /\ _check_collision(loop.bbox, loop.exclude_node, St)
  /\ loop' = [loop EXCEPT !.bbox.y = @ + loop.step]
  /\ last' = Obs("turn")
  /\ UNCHANGED <<nextNode, nextConn, pos, text, edges, pressPos, sceneNodes, selected,
                 conn, geom, connections, stack, stackIdx, nextCmd, gridSnap, drag, grab,
                 pending, doc, aligns, attraction, multi>>

\* one turn of its while loop (view.py 1311-1313)
PushDownStep ==
  /\ loop.active
  /\ _check_collision(loop.bbox, loop.exclude_node, St)
  /\ loop' = [loop EXCEPT !.bbox.y = @ + loop.step,
                          !.bbox.bottom = loop.bbox.y + loop.step + loop.bbox.height]
  /\ last' = Obs("turn")
  /\ UNCHANGED <<nextNode, nextConn, pos, text, edges, pressPos, sceneNodes, selected,
                 conn, geom, connections, stack, stackIdx, nextCmd, gridSnap, drag, grab,
                 pending, doc, aligns, attraction, multi>>

\* the loop condition is false: the bbox is returned (view.py 1315)
PushDownReturn ==
  /\ loop.active
  /\ ~_check_collision(loop.bbox, loop.exclude_node, St)
  /\ loop' = [loop EXCEPT !.active = FALSE]
  /\ last' = Obs("return")
  /\ UNCHANGED <<nextNode, nextConn, pos, text, edges, pressPos, sceneNodes, selected,
                 conn, geom, connections, stack, stackIdx, nextCmd, gridSnap, drag, grab,
                 pending, doc, aligns, attraction, multi>>

\* ------------------------------------------------- moves of several nodes
\* the rectangles a rubber band is dragged over (view.py 66-70)
RubberBands ==
  {Rect(c[1] * U, -10 * U, c[2] * U - c[1] * U, c[3] * U + 10 * U) :
     c \in {<<-10, 140, 75>>, <<-10, 140, 250>>, <<-10, 440, 75>>, <<-10, 440, 250>>,
            <<-310, 140, 75>>}}
\* how far the mouse has gone from the point of the press
MultiDeltas == {<<0, 100 * U>>, <<-200 * U, 0>>}
multi_margin == 5 * U
HasStart(start, n) == \E i \in DOMAIN start : start[i][1] = n
StartOf(start, n) == start[CHOOSE i \in DOMAIN start : start[i][1] = n][2]
\* move_distance > 1.0 (view.py 746-748)
MovedOverOne(a, b) ==
  (b[1] - a[1]) * (b[1] - a[1]) + (b[2] - a[2]) * (b[2] - a[2]) > U * U
\* n_rect and expanded_rect of the collision test (view.py 766-782)
MultiNodeRect(M, n) ==
  Rect(M.pos[n][1] - BoundingW(n, M.sel) \div 2, M.pos[n][2] - BoundingH(n, M.sel) \div 2,
       BoundingW(n, M.sel), BoundingH(n, M.sel))
MultiExpanded(M, item) ==
  LET Grown(r) == Rect(r.l - multi_margin, r.t - multi_margin,
                       (r.r - r.l) + 2 * multi_margin, (r.b - r.t) + 2 * multi_margin)
  IN  Grown(sceneBoundingRect(M.pos, item, M.sel))
MultiOverlaps(M, n) ==
  \E item \in SeqToSet(M.scene) \ M.sel :
     Intersects(MultiNodeRect(M, n), MultiExpanded(M, item))

\* what _handle_multi_move_end leaves: history, flags, commands pushed, branch
MultiEnded(H, mu, pushed, branch) ==
  [h |-> H, multi |-> mu, pushed |-> pushed, branch |-> branch]

\* MindMapView._handle_multi_move_end, run by the single-shot timer.  The
\* import of view.py 762 inside the function makes NodeItem a local name of
\* the whole function, so the list comprehension of view.py 728 raises
\* NameError before NodeItem is bound: once past the two early returns the
\* handler ends there, and the slot's exception leaves the view as it was.
_handle_multi_move_end(H, mu, d, grid) ==
  LET Stopped == [mu EXCEPT !.timer = FALSE]
  IN  IF ~mu.in_progress \/ mu.undo_pending THEN MultiEnded(H, Stopped, 0, "return")
      ELSE IF mu.start = <<>>
      THEN MultiEnded(H, [Stopped EXCEPT !.in_progress = FALSE], 0, "empty")
      ELSE MultiEnded(H, Stopped, 0, "NameError")

\* MindMapView.mousePressEvent, view.py 619-629: the start positions of the
\* selected nodes, kept in the order of the scene's list
multi_press(mu, M) ==
  IF Cardinality(M.sel) > 1
  THEN [mu EXCEPT !.in_progress = TRUE, !.undo_pending = FALSE,
                  !.start = [i \in DOMAIN FilterSeq(M.scene, M.sel) |->
                               <<FilterSeq(M.scene, M.sel)[i],
                                 M.pos[FilterSeq(M.scene, M.sel)[i]]>>]]
  ELSE mu

\* setPos on each selected node while _is_multi_move_in_progress is set:
\* ItemPositionHasChanged also updates the node's connections (node.py
\* 143-150)
RECURSIVE MultiSetPosAll(_, _, _)
MultiSetPosAll(W, pairs, E) ==
  IF pairs = <<>> THEN W
  ELSE MultiSetPosAll(UpdateConnSet(SetPos(W, pairs[1][1], pairs[1][2], E),
                                    Touching({pairs[1][1]}, E), E),
                      Tail(pairs), E)

\* a rubber band dragged over the background and released: the press is
\* MindMapView.mousePressEvent, the nodes whose rectangle the band meets become
\* the selection, and the release starts the timer when the flag is set; the
\* timer has fired before the next gesture
RubberBand ==
  /\ Idle
  /\ ~multi.timer
  /\ \E band \in RubberBands :
       /\ selected' = {n \in SeqToSet(sceneNodes) :
                         Intersects(band, sceneBoundingRect(pos, n, selected))}
       /\ selected' # selected
  /\ multi' = _handle_multi_move_end(Hist, multi_press(multi, St), drag, gridSnap).multi
  /\ last' = Obs("band")
  /\ UNCHANGED <<loop, aligns, attraction, nextNode, nextConn, pos, text, edges, pressPos,
                 sceneNodes, conn, geom, connections, stack, stackIdx, nextCmd, gridSnap, drag,
                 grab, pending, doc>>

\* a left press without Shift on one of several selected nodes:
\* MindMapView.mousePressEvent (view.py 619-629), then
\* NodeItem.mousePressEvent; the selection stays
MultiPress ==
  /\ Idle
  /\ ~multi.timer
  /\ Cardinality(selected) > 1
  /\ multi.presses < MaxMultiMoves
  /\ \E n \in selected :
       LET Begun(b) ==
             /\ SetScene(b.m)
             /\ drag' = b.d
             /\ pressPos' = [pressPos EXCEPT ![n] = pos[n]]
             /\ grab' = n
       IN  Begun(begin_subtree_drag(St, n, gridSnap))
  /\ multi' = [multi_press(multi, St) EXCEPT !.presses = @ + 1]
  /\ last' = [Obs("multipress") EXCEPT !.from = [NoFrom EXCEPT !.pos = pos, !.sel = selected]]
  /\ UNCHANGED <<loop, aligns, attraction, stack, stackIdx, nextCmd, gridSnap, pending, doc>>

\* a mouse move with the button held: MindMapView.mouseMoveEvent updates the
\* connections of the selected nodes (view.py 653-664), then setPos runs on
\* every selected node
MultiMove ==
  /\ ~Idle
  /\ multi.in_progress
  /\ \E delta \in MultiDeltas :
       LET Moved(E) ==
             WithWorld(St, MultiSetPosAll(UpdateConnSet(WorldOf(St), Touching(selected, E), E),
                                          ShiftPairs(multi.start, delta[1], delta[2]), E))
       IN  /\ SetScene(Moved(EnvOf(St, drag, gridSnap)))
           /\ pos' # pos
  /\ last' = [Obs("multimove") EXCEPT !.from = last.from]
  /\ UNCHANGED <<multi, loop, aligns, attraction, pressPos, stack, stackIdx, nextCmd, gridSnap,
                 drag, grab, pending, doc>>

\* the release of the left button after the nodes have moved:
\* MindMapView.mouseReleaseEvent starts the timer (view.py 706-715) and
\* NodeItem.mouseReleaseEvent returns at node.py 193-195
MultiRelease ==
  /\ ~Idle
  /\ multi.in_progress
  /\ pos[grab] # pressPos[grab]
  /\ multi' = [multi EXCEPT !.timer = TRUE]
  /\ pressPos' = [pressPos EXCEPT ![grab] = NoPos]
  /\ grab' = None
  /\ last' = [Obs("multirelease") EXCEPT !.from = last.from]
  /\ UNCHANGED <<loop, aligns, attraction, nextNode, nextConn, pos, text, edges, sceneNodes,
                 selected, conn, geom, connections, stack, stackIdx, nextCmd, gridSnap, drag,
                 pending, doc>>

\* _multi_move_end_timer fires: _handle_multi_move_end
MultiMoveEnd ==
  /\ multi.timer
  /\ LET Done(r) ==
           /\ SetHist(r.h)
           /\ multi' = r.multi
           /\ last' = [Obs("multiend") EXCEPT
                         !.cmd = IF r.pushed > 0 THEN r.h.stack[r.h.idx] ELSE NullCmd,
                         !.branch = r.branch, !.pushed = r.pushed,
                         !.from = [NoFrom EXCEPT !.pos = pos, !.sel = selected],
                         !.multi = multi]
     IN  Done(_handle_multi_move_end(Hist, multi, drag, gridSnap))
  /\ UNCHANGED <<loop, aligns, attraction, pressPos, gridSnap, drag, grab, pending, doc>>

\* ---------------------------------------------------------- specifications
\* every operation of the model
Next ==
  \/ AddNode \/ ClickEmpty \/ Navigate \/ Press \/ MoveTo \/ Release \/ Undo \/ Redo
  \/ DeleteSelected \/ ShiftClick \/ Rename \/ ToggleGridSnap \/ Export \/ Import
  \/ Align \/ StartAttraction \/ UpdateAttraction \/ StopAttraction
  \/ ShiftRelease \/ PushDownCall \/ PushDownStep \/ PushDownReturn \/ FindFreeCall \/ FindFree
  \/ RubberBand \/ MultiPress \/ MultiMove \/ MultiRelease \/ MultiMoveEnd \/ Escape
Spec == Init /\ [][Next]_vars

\* the command layer: what pushes, undoes and redoes commands without a drag
NextCmd ==
  \/ AddNode \/ ClickEmpty \/ Navigate \/ Rename \/ DeleteSelected \/ Undo \/ Redo
SpecCmd == Init /\ [][NextCmd]_vars

\* the drag gestures on the nodes that add-node places
NextDrag ==
  \/ AddNode \/ ClickEmpty \/ Press \/ MoveTo \/ Release \/ ToggleGridSnap
SpecDrag == Init /\ [][NextDrag]_vars

\* nodes added one after another below a selected parent
NextAdd == AddNode \/ Navigate \/ Press \/ Release
SpecAdd == Init /\ [][NextAdd]_vars

\* save and load of the maps that add-node and delete build
NextJson ==
  \/ AddNode \/ ClickEmpty \/ Navigate \/ DeleteSelected \/ Export \/ Import
SpecJson == Init /\ [][NextJson]_vars

\* the align action on the maps that add-node and drags build
NextAlign ==
  \/ AddNode \/ Navigate \/ Press \/ MoveTo \/ Release \/ Align
SpecAlign == Init /\ [][NextAlign]_vars

\* drags and their undo and redo
NextMove == AddNode \/ Press \/ MoveTo \/ Release \/ Undo \/ Redo
SpecMove == Init /\ [][NextMove]_vars

\* moves, clicks released with Shift held, and undo
NextShift == AddNode \/ Press \/ MoveTo \/ Release \/ ShiftRelease \/ Undo
SpecShift == Init /\ [][NextShift]_vars

\* add-node, connect, delete and their undo and redo
NextLink == AddNode \/ ShiftClick \/ DeleteSelected \/ Undo \/ Redo
SpecLink == Init /\ [][NextLink]_vars

\* connecting by Shift-click with deletions and Escape between the clicks
NextConnect == AddNode \/ ShiftClick \/ DeleteSelected \/ Escape \/ Undo
SpecConnect == Init /\ [][NextConnect]_vars

\* the attraction mode on the maps that add-node builds
NextAttract ==
  \/ AddNode \/ ToggleGridSnap \/ StartAttraction \/ UpdateAttraction \/ StopAttraction
SpecAttract == Init /\ [][NextAttract]_vars

\* A map of four nodes as add-node and drags made with grid snapping off
\* leave it: the centre node at the origin with its child (node 2) away to
\* the right, and two parent-level nodes, node 3 below the centre in the
\* centre's lane and node 4 away to the left.  The positions of nodes 2 and
\* 3 are drawn from the grid points and the points off the grid; one more
\* command fits the history.
ChildSpots == {<<300 * U, 0>>, <<300 * U, 5 * U>>}
LaneSpots == {<<0, 81 * U>>, <<0, 100 * U>>, <<0, 120 * U>>}
LaidOut(p2, p3) ==
  _create_edge(
    [nextNode |-> MaxNodeObjs + 1, nextConn |-> 1,
     pos |-> [n \in NodeIds |->
                CASE n = 2 -> p2 [] n = 3 -> p3 [] n = 4 -> <<-300 * U, 0>>
                  [] OTHER -> <<0, 0>>],
     text |-> [n \in NodeIds |-> IF n = 1 THEN CenterLabel ELSE NewLabel],
     edges |-> [n \in NodeIds |-> <<>>],
     scene |-> [i \in 1..MaxNodeObjs |-> i], sel |-> {},
     conn |-> [c \in ConnIds |-> [source |-> None, target |-> None, live |-> FALSE]],
     geom |-> [c \in ConnIds |-> NoGeom], connections |-> <<>>],
    1, 2, IdleDrag, FALSE)
SceneIs(M) ==
  /\ nextNode = M.nextNode
  /\ nextConn = M.nextConn
  /\ pos = M.pos
  /\ text = M.text
  /\ edges = M.edges
  /\ sceneNodes = M.scene
  /\ selected = M.sel
  /\ conn = M.conn
  /\ geom = M.geom
  /\ connections = M.connections
InitLaidOut ==
  /\ \E p2 \in ChildSpots : \E p3 \in LaneSpots : SceneIs(LaidOut(p2, p3))
  /\ pressPos = [n \in NodeIds |-> NoPos]
  /\ stack = <<>>
  /\ stackIdx = 0
  /\ nextCmd = MaxCmdObjs - 1
  /\ gridSnap \in BOOLEAN
  /\ drag = IdleDrag
  /\ grab = None
  /\ pending = None
  /\ doc = NoDoc
  /\ aligns = 0
  /\ attraction = NoAttraction
  /\ loop = NoLoop
  /\ multi = NoMulti
  /\ last = NoObs
NextNorm == Press \/ MoveTo \/ Release \/ ToggleGridSnap
SpecNorm == InitLaidOut /\ [][NextNorm]_vars

\* _find_collision_free_position on lists of nodes of its own
NextFree == FindFreeCall \/ FindFree
SpecFree == Init /\ [][NextFree]_vars

\* moves of several selected nodes on the laid-out maps
NextMulti == RubberBand \/ MultiPress \/ MultiMove \/ MultiRelease \/ MultiMoveEnd
SpecMulti == InitLaidOut /\ [][NextMulti]_vars

\* push_down_until_no_collision on those layouts; a loop that has been
\* entered keeps running
NextPush == PushDownCall \/ PushDownStep \/ PushDownReturn
SpecPush ==
  InitLaidOut /\ [][NextPush]_vars /\ WF_vars(PushDownStep) /\ WF_vars(PushDownReturn)

\* ------------------------------------------------------------------ claims
\* the last operation was an undo that directly followed the push of the
\* command it undid
UndoOfPush == last.op = "undo" /\ last.fresh

\* C1: pushing a command and then undoing it leaves every node's position,
\* every node's text and the set of edges as they were before the push.
C1_PushUndoRestores == UndoOfPush => ViewOf(St) = last.pre

\* an edge between n and other is listed by the view and by both ends
Reconnected(n, other) ==
  \E c \in SeqToSet(connections) :
     /\ {conn[c].source, conn[c].target} = {n, other}
     /\ <<c, other>> \in SeqToSet(edges[n])
     /\ <<c, n>> \in SeqToSet(edges[other])

\* C2: after a DeleteNodeCommand on a node with two attached edges is pushed
\* and undone, a node with the original text is at the original position, and
\* for each of the two partners an edge to it is in view.connections and in
\* the edge lists of both ends.
C2_DeleteUndoReconnects ==
  (UndoOfPush /\ last.cmd.type = "DeleteNode" /\ Len(last.cmd.connected_edges) = 2)
  => \E n \in SeqToSet(sceneNodes) :
        /\ text[n] = last.cmd.node_text
        /\ pos[n] = last.cmd.node_pos
        /\ \A i \in 1..2 : Reconnected(n, last.cmd.connected_edges[i][3])

\* the last operation was the redo that re-applied every undone command
RedoneAll == last.op = "redo" /\ last.undos > 0 /\ last.redos = last.undos

\* C3: undoing the k most recent commands and redoing those k commands gives
\* the nodes and the edge connectivity of before the undos, and every listed
\* connection joins nodes that are in the scene.
C3_UndoRedoKeeps ==
  RedoneAll =>
    /\ ViewOf(St) = last.base
    /\ \A c \in SeqToSet(connections) :
          conn[c].source \in SeqToSet(sceneNodes) /\ conn[c].target \in SeqToSet(sceneNodes)

\* the last release took the collision branch of a drag whose subtree
\* overlapped a node outside it
RolledBack ==
  last.op \in {"push", "release"} /\ last.branch = "collision" /\ last.dragging
  /\ last.overlap

\* C4: when a subtree drag is released where a node of the subtree overlaps a
\* node outside it and the release handler rolls the drag back, every node
\* snapshotted at the press is at its position of before the press.
C4_RollbackExact ==
  RolledBack => \A i \in DOMAIN drag.orig : pos[drag.orig[i][1]] = drag.orig[i][2]

\* C5: a subtree drag that is rolled back because the subtree collides with
\* an unrelated node pushes no command.
C5_RollbackPushesNothing == RolledBack => last.pushed = 0

\* the last release ended a press during which the node moved 5 units or less
Clicked ==
  last.op \in {"push", "release"} /\ last.branch \in {"still", "near"} /\ last.dragging

\* C6: a press and a release on a node without Shift, between which the node
\* moves by at most 5 units or not at all, push no command.
C6_ClickPushesNothing == Clicked => last.pushed = 0

\* the last release ended a drag of more than 5 units with no collision and
\* no lane insertion
MovedFreely ==
  last.op \in {"push", "release"} /\ last.branch = "moved" /\ last.dragging

\* C7: a subtree drag of more than 5 units released with no collision and no
\* lane insertion pushes exactly one command, a SubtreeMove with the position
\* of before the press and the position of after the release of the root and
\* of every descendant.
C7_OneSubtreeMove ==
  MovedFreely =>
    /\ last.pushed = 1
    /\ last.cmd.type = "SubtreeMove"
    /\ last.cmd.old_positions = drag.orig
    /\ \A i \in DOMAIN last.cmd.new_positions :
          last.cmd.new_positions[i][2] = pos[last.cmd.new_positions[i][1]]

\* the last operation pushed an AddNodeCommand; the offset the fallback is
\* stated to use
Added == last.op = "push" /\ last.cmd.type = "AddNode"
FallbackOffset == <<300 * U, 300 * U>>

\* C8: after an add-node operation the new node's rectangle grown by the
\* 20-unit margin intersects no other node's rectangle, unless the search
\* found no free point, and then the node is at the preferred position plus
\* (300, 300).
C8_AddedNodeIsFree ==
  Added =>
    IF last.exhausted
    THEN pos[last.node] = <<last.pref[1] + FallbackOffset[1], last.pref[2] + FallbackOffset[2]>>
    ELSE _is_position_free_for_node(pos[last.node], last.node, pos, sceneNodes, selected)

\* the last operation imported the document the export before it wrote
RoundTrip == last.op = "import" /\ last.fresh /\ last.fault = "none"

\* C10: importing the document written by an export of N nodes and M edges
\* gives N nodes with the same labels and M edges between the same labels.
C10_RoundTripIsomorphic == RoundTrip => GraphOf(St) = last.pre

\* the children of the centre node, in the order their connections were made
RootChildren ==
  LET cs == FilterSeq(connections, {c \in SeqToSet(connections) : conn[c].source = 1})
  IN  [i \in DOMAIN cs |-> conn[cs[i]].target]
RootAtOrigin == 1 \in SeqToSet(sceneNodes) /\ pos[1] = <<0, 0>>
ChildStep == 92 * U
Stacked ==
  \A i \in DOMAIN RootChildren : \A j \in DOMAIN RootChildren :
     j = i + 1 => pos[RootChildren[j]][2] >= pos[RootChildren[i]][2] + ChildStep

\* C9 as stated: with the root at (0,0) and no manual move, every child of
\* the root is at X = 64 + 40 + 64 and each child is at least 92 below the
\* child before it.
C9_ColumnAsStated ==
  RootAtOrigin =>
    /\ \A i \in DOMAIN RootChildren :
          pos[RootChildren[i]][1] = (NODE_WIDTH \div 2) + H_GAP + (NODE_WIDTH \div 2)
    /\ Stacked

\* the grid line the computed column snaps to
SnappedColumn == 160 * U

\* C9, amended: with grid snapping on, every child of the root is at the
\* grid line X = 160, the snap of the computed 168.8 (the selected parent's
\* bounding right edge 64.8, plus 40, plus 64), and each child is at least 92
\* below the child before it.
C9_ChildrenStackInSnappedColumn ==
  RootAtOrigin =>
    /\ \A i \in DOMAIN RootChildren : pos[RootChildren[i]][1] = SnappedColumn
    /\ Stacked

\* C9 witness: the third child of the root at (0,0) has just been added
C9_ThreeChildren == RootAtOrigin /\ Len(RootChildren) = 3 /\ last.op = "push"

\* the last operation was an import that failed on its text
ImportFailed == last.op = "import" /\ last.fault # "none"

\* C11: after an import that fails (unparseable text, or a node or edge
\* entry without a required key) the nodes, the edges and the undo history
\* of before the import are all still there.
C11_FailedImportKeepsDocument ==
  ImportFailed => ViewOf(St) = last.base /\ Len(stack) = last.depth

\* the last operation was a drop into a vertical lane, which ends with a call
\* of _normalize_subtree_spacing on the lane's nodes sorted by Y
LaneDrop == last.op \in {"push", "release"} /\ last.branch = "lane"

\* C12: a call of _normalize_subtree_spacing lowers no node's Y: every node
\* of the scene has, after the call, a Y at or below (>=) its Y before it.
C12_NormalizeOnlyPushesDown ==
  LaneDrop =>
    \A n \in SeqToSet(last.lane.pre.scene) :
       last.lane.post.pos[n][2] >= last.lane.pre.pos[n][2]

\* C13: after _normalize_subtree_spacing, the top of each root's subtree box
\* is at least min_gap below the bottom of the subtree box of the root
\* before it in the list.
C13_SubtreesSpaced ==
  LaneDrop =>
    \A i \in 1..(Len(last.lane.ordered) - 1) :
       get_subtree_bbox(last.lane.ordered[i + 1], last.lane.post).y
         - get_subtree_bbox(last.lane.ordered[i], last.lane.post).bottom >= LaneMinGap

\* the lane nodes that lie above (smaller Y) and below the dropped node once
\* _reposition_lane_nodes has returned
LaneAbove == {n \in SeqToSet(last.lane.nodes) :
                last.lane.post.pos[n][2] < last.lane.post.pos[last.node][2]}
LaneBelow == {n \in SeqToSet(last.lane.nodes) :
                last.lane.post.pos[n][2] > last.lane.post.pos[last.node][2]}
\* b's bounding box starts at least the lane gap below the end of a's (doubled)
LaneGap(a, b) ==
  (2 * last.lane.post.pos[b][2] - BoundingH(b, last.lane.post.sel))
    - (2 * last.lane.post.pos[a][2] + BoundingH(a, last.lane.post.sel)) >= 2 * LaneMinGap

\* C14: after a drop into a lane for which _check_lane_insertion returned
\* index i, exactly i lane nodes lie above the dropped node, all the others
\* lie below it, and any two nodes of the lane are at least 5 units apart
\* vertically.
C14_LaneInsertionAtIndex ==
  LaneDrop =>
    /\ Cardinality(LaneAbove) = last.lane.index
    /\ LaneAbove \cup LaneBelow = SeqToSet(last.lane.nodes)
    /\ \A a, b \in SeqToSet(last.lane.ordered) :
         last.lane.post.pos[a][2] < last.lane.post.pos[b][2] => LaneGap(a, b)

\* the last operation was an alignment of the generations
Aligned == last.op = "align"

\* the bounding box of b starts at least ALIGN_MIN_GAP below the end of the
\* bounding box of a (doubled)
AlignGap(a, b) ==
  (2 * pos[b][2] - BoundingH(b, selected)) - (2 * pos[a][2] + BoundingH(a, selected))
    >= 2 * ALIGN_MIN_GAP

\* C15: after align_generations, two nodes of one breadth-first level have
\* bounding boxes at least ALIGN_MIN_GAP apart vertically, and a node that
\* was above another node of its level before the call is above it after.
C15_LevelsSpacedInOrder ==
  Aligned =>
    \A i \in DOMAIN last.align.gens :
      \A a, b \in SeqToSet(last.align.gens[i]) :
         /\ a # b => AlignGap(a, b) \/ AlignGap(b, a)
         /\ last.align.pos[a][2] < last.align.pos[b][2] => pos[a][2] < pos[b][2]

\* the attraction mode was on and the last operation stopped it
Stopped == last.op = "stop" /\ last.was.attraction.mode
\* the last operation was a start with the mode on, or a stop with it off
Repeated ==
  \/ last.op = "start" /\ last.was.attraction.mode
  \/ last.op = "stop" /\ ~last.was.attraction.mode

\* C19: stopping the attraction mode puts every node at the position and
\* every connection at the segments saved when the mode was started; a
\* start while the mode is on and a stop while it is off change nothing.
C19_AttractionRestores ==
  /\ Stopped =>
       /\ \A i \in DOMAIN last.was.attraction.positions :
            pos[last.was.attraction.positions[i][1]] = last.was.attraction.positions[i][2]
       /\ \A i \in DOMAIN last.was.attraction.connections :
            geom[last.was.attraction.connections[i][1]]
              = last.was.attraction.connections[i][2]
  /\ Repeated =>
       pos = last.was.pos /\ geom = last.was.geom /\ attraction = last.was.attraction

\* the vertical segment of connection c lies 20 right of the right edge of
\* its source (the edge of the bounding rectangle, drawn with either pen) and
\* runs from the source's centre Y to the target's centre Y
VerticalAt(c) ==
  /\ geom[c].vx - (pos[conn[c].source][1] + NODE_WIDTH \div 2 + CrankOffset)
       \in {PenHalfNormal, PenHalfSelected}
  /\ geom[c].sy = pos[conn[c].source][2]
  /\ geom[c].ey = pos[conn[c].target][2]

\* C16: whenever no drag and no attraction mode is in progress, the vertical
\* segment of every listed connection between two nodes of the scene is at
\* the source's right edge + 20 and spans the two centre Ys of the current
\* positions.
C16_VerticalSegmentFollowsNodes ==
  (Idle /\ ~attraction.mode) =>
    \A c \in SeqToSet(connections) :
       ({conn[c].source, conn[c].target} \subseteq SeqToSet(sceneNodes) /\ conn[c].live)
         => VerticalAt(c)

\* C20: every release that follows a press which started a subtree drag
\* leaves the drag controller idle: the mode off, the root and the start
\* position unset, the node and connector snapshots empty, whichever branch
\* the release took and whether or not Shift was held
C20_ReleaseReturnsToIdle ==
  (Idle /\ last.op \in {"push", "release"}) =>
    /\ ~drag.mode
    /\ drag.root = None
    /\ drag.start = NoPos
    /\ drag.snapshot = <<>>
    /\ drag.esnap = <<>>

\* C17: every connection of the view's list has its source and its target
\* among the nodes of the scene
C17_ListedEdgesHaveEndpoints ==
  \A c \in SeqToSet(connections) :
     {conn[c].source, conn[c].target} \subseteq SeqToSet(sceneNodes)

\* C18: whenever a step creates a connection, by the addition of a child or
\* by the Shift-click connect, the X of its source is strictly smaller than
\* the X of its target
C18_CreatedEdgeLeftToRight ==
  [][nextConn' = nextConn + 1 =>
       pos'[conn'[nextConn].source][1] < pos'[conn'[nextConn].target][1]]_vars

\* the last operation added a child to a parent
ChildAdded == last.op = "push" /\ last.cmd.type = "AddNode" /\ last.cmd.parent_node # None
\* the children of the parent that were to its right (a larger X) before
\* the addition, and the bounding rectangles of then
RightChildren ==
  {last.from.edges[last.cmd.parent_node][i][2] :
     i \in {j \in DOMAIN last.from.edges[last.cmd.parent_node] :
              last.from.pos[last.from.edges[last.cmd.parent_node][j][2]][1]
                > last.from.pos[last.cmd.parent_node][1]}}
RectBefore(n) == sceneBoundingRect(last.from.pos, n, last.from.sel)
MaxOf(S) == CHOOSE v \in S : \A w \in S : w <= v
\* the Y of the returned point, the grid snapping applied to y
PlacedAtY(y) == last.pref[2] = snap_to_grid(<<0, y>>, gridSnap)[2]

\* C21 as stated: with no child to its right the new child gets the parent's
\* Y; with some, it gets the largest bottom edge among them plus 20 plus half
\* the node height, wherever they are.
C21_BelowLowestChild ==
  ChildAdded =>
    PlacedAtY(IF RightChildren = {} THEN last.from.pos[last.cmd.parent_node][2]
              ELSE MaxOf({RectBefore(ch).b : ch \in RightChildren})
                   + V_GAP + NODE_HEIGHT \div 2)

\* the right children that start at or after the parent's right edge and
\* overlap, vertically, the row of the parent: the band of one node height
\* centred on the parent's Y
RowHeight == 36 * U
InParentRow ==
  {ch \in RightChildren :
     /\ RectBefore(ch).l >= RectBefore(last.cmd.parent_node).r
     /\ RectBefore(ch).b > last.from.pos[last.cmd.parent_node][2] - RowHeight
     /\ RectBefore(ch).t < last.from.pos[last.cmd.parent_node][2] + RowHeight}
StackGap == 56 * U

\* C21, amended: the new child gets the parent's Y unless some right child
\* lies in the parent's row; then it gets the largest bottom edge among the
\* parent and all its right children, plus 20 plus half the node height.
C21_BelowLowestWhenRowTaken ==
  ChildAdded =>
    PlacedAtY(IF InParentRow = {} THEN last.from.pos[last.cmd.parent_node][2]
              ELSE MaxOf({RectBefore(ch).b : ch \in RightChildren \cup {last.cmd.parent_node}})
                   + StackGap)

\* C21 witness: a child was added below the right children of its parent
C21_StackedBelow ==
  ChildAdded /\ InParentRow # {} /\ last.pref[2] > last.from.pos[last.cmd.parent_node][2]

\* the left edge of the bounding rectangle of a node
LeftEdge(n) == pos[n][1] - BoundingW(n, selected) \div 2

\* C22: after align_generations, every node the search reached at level L has
\* its left edge at the X the centre node had before the call plus L times
\* 180.
C22_LevelsShareLeftEdge ==
  Aligned =>
    \A i \in DOMAIN last.align.gens :
      \A n \in SeqToSet(last.align.gens[i]) :
         LeftEdge(n) = last.align.pos[last.align.gens[1][1]][1] + (i - 1) * LANE_X_SPACING

\* a pointer move of a subtree drag has just been handled
SubtreeDragMove == ~Idle /\ last.op = "move" /\ drag.mode /\ drag.root = grab

\* C23: at a pointer move of a subtree drag every snapshotted node is away
\* from its position of before the drag by the displacement of the root
\* since the start of the drag, and every other node of the scene is where
\* it was when the button was pressed.
C23_SubtreeMovesRigidly ==
  SubtreeDragMove =>
    /\ \A i \in DOMAIN drag.snapshot :
          /\ pos[drag.snapshot[i][1]][1] - drag.snapshot[i][2][1] = pos[grab][1] - drag.start[1]
          /\ pos[drag.snapshot[i][1]][2] - drag.snapshot[i][2][2] = pos[grab][2] - drag.start[2]
    /\ \A n \in SeqToSet(sceneNodes) \ PairNodes(drag.snapshot) : pos[n] = last.from.pos[n]

\* a call of push_down_until_no_collision has just returned
Returned == last.op = "return"
\* the box overlaps the rectangle of a node of the scene other than the one
\* left out
Overlapping(b, leftOut) ==
  \E n \in SeqToSet(sceneNodes) \ {leftOut} :
     /\ b.x < pos[n][1] + NODE_WIDTH /\ pos[n][1] < b.x + b.width
     /\ b.y < pos[n][2] + NODE_HEIGHT /\ pos[n][2] < b.y + b.height

\* C24: a call of push_down_until_no_collision with a positive step returns;
\* the returned bbox has the x, width and height of the given one, a y that is
\* the given y plus a non-negative multiple of the step, bottom = y + height,
\* and overlaps no node other than the excluded one.
C24_PushDownTerminatesClear ==
  /\ [](Returned =>
         /\ loop.bbox.x = loop.given.x
         /\ loop.bbox.width = loop.given.width
         /\ loop.bbox.height = loop.given.height
         /\ loop.bbox.y >= loop.given.y
         /\ (loop.bbox.y - loop.given.y) % loop.step = 0
         /\ loop.bbox.bottom = loop.bbox.y + loop.bbox.height
         /\ ~Overlapping(loop.bbox, loop.exclude_node))
  /\ (loop.active ~> ~loop.active)

\* C24 witness: a call has returned after two turns of its loop or more
C24_PushedTwice == Returned /\ loop.bbox.y >= loop.given.y + 2 * loop.step

\* the distances _translate_subtree_vertical is asked to move a subtree by
TranslateDys == {1 * U, 20 * U, 100 * U}
\* the positions after _translate_subtree_vertical(root, dy) are those of
\* before, with dy added to the Y of the nodes of the subtree
TranslatedBy(after, subtree, dy) ==
  \A n \in SeqToSet(sceneNodes) :
     after[n] = IF n \in subtree THEN <<pos[n][1], pos[n][2] + dy>> ELSE pos[n]

\* C25: _translate_subtree_vertical(root, dy) adds dy to the Y of the root and
\* of each of its descendants, once, and leaves every X and every other node
\* as it was.
C25_TranslateMovesSubtreeByDy ==
  Idle =>
    \A root \in SeqToSet(sceneNodes) : \A dy \in TranslateDys :
       TranslatedBy(_translate_subtree_vertical(St, root, dy, drag, gridSnap).pos,
                    {root} \cup SeqToSet(get_descendants(root, sceneNodes, conn, connections)),
                    dy)

\* the last operation was a call of _find_collision_free_position; the list
\* of nodes it was given, as a scene
Searched == last.op = "find"
SearchedScene ==
  [pos |-> last.from.pos, scene |-> [i \in DOMAIN last.from.pos |-> i], sel |-> {}]

\* C26: the search returns the preferred position when it is free, and the
\* preferred position plus (300, 300) when neither it nor any position of
\* the spiral is free.
C26_FreeOrFallback ==
  Searched =>
    /\ _is_position_free(last.pref, last.from.pos, SearchedScene.scene, {})
          => last.found = last.pref
    /\ SearchExhausted(last.pref, SearchedScene)
          => last.found = <<last.pref[1] + FallbackOffset[1], last.pref[2] + FallbackOffset[2]>>

\* ---- C27
\* _handle_multi_move_end has run on a move of several selected nodes
MultiHandled ==
  /\ last.op = "multiend"
  /\ last.multi.in_progress
  /\ last.multi.start # <<>>
  /\ Cardinality(last.from.sel) > 1
\* the scene the handler found, and the nodes it found moved
MultiBefore == [pos |-> last.from.pos, scene |-> sceneNodes, sel |-> last.from.sel]
MultiMoved(n) ==
  /\ HasStart(last.multi.start, n)
  /\ MovedOverOne(StartOf(last.multi.start, n), last.from.pos[n])
MultiAnyOverlap == \E n \in last.from.sel : MultiMoved(n) /\ MultiOverlaps(MultiBefore, n)
MultiAtStart == \A n \in last.from.sel : pos[n] = StartOf(last.multi.start, n)
\* C27: at the end of a move of several selected nodes, when a moved selected
\* node overlaps, within the margin of 5, a node outside the selection, every
\* selected node is back at its start position and no command has been
\* pushed; otherwise, when some node moved by more than 1, exactly one
\* MoveMultipleNodes command has been pushed; either way the
\* multi-move-in-progress flag is false afterwards
C27_MultiMoveEnd ==
  MultiHandled =>
    /\ MultiAnyOverlap => (MultiAtStart /\ last.pushed = 0)
    /\ (~MultiAnyOverlap /\ \E n \in last.from.sel : MultiMoved(n))
          => (last.pushed = 1 /\ last.cmd.type = "MoveMultipleNodes")
    /\ ~multi.in_progress

\* ---- C28
EdgePairs(n) == {edges[n][i] : i \in DOMAIN edges[n]}
EdgeAttached(c) ==
  /\ <<c, conn[c].target>> \in EdgePairs(conn[c].source)
  /\ <<c, conn[c].source>> \in EdgePairs(conn[c].target)
\* C28: a connection is in the view's connection list exactly when its
\* source's edge list holds it with the target and its target's edge list
\* holds it with the source; no edge list of a node of the scene names a
\* connection that is not in the list or a node that is not in the scene
C28_EdgeListsMatchConnections ==
  /\ \A c \in 1..(nextConn - 1) : (c \in SeqToSet(connections)) <=> EdgeAttached(c)
  /\ \A n \in SeqToSet(sceneNodes) : \A e \in EdgePairs(n) :
        e[1] \in SeqToSet(connections) /\ e[2] \in SeqToSet(sceneNodes)

\* ---- C29
\* C29: align_generations is idempotent: called again right after a call, it
\* changes no node position
C29_AlignIdempotent ==
  last.op = "align" =>
    align_generations_and_avoid_line_overlap(St, drag, gridSnap).pos = pos

\* ---- C30
\* the second Shift-click has pushed a ConnectNodesCommand
ConnectPushed == last.op = "push" /\ last.cmd.type = "ConnectNodes"
\* C30: when the second Shift-click pushes a ConnectNodesCommand, its source,
\* the pending node of the first Shift-click, and its target are two distinct
\* nodes that are both in the scene at that moment, whatever happened between
\* the two clicks; after the second Shift-click or Escape no source is pending
C30_ConnectsNodesOfScene ==
  /\ ConnectPushed =>
       /\ last.cmd.source # last.cmd.target
       /\ last.cmd.source \in SeqToSet(sceneNodes)
       /\ last.cmd.target \in SeqToSet(sceneNodes)
  /\ (ConnectPushed \/ last.op = "escape") => pending = None

====
